---- MODULE Spec2Model ----
(***************************************************************************)
(* A model of nni/compression/pytorch/speedup/jit_translate.py: the        *)
(* constant resolver (parse_constant, translate_list), the operator        *)
(* registry (trans_from_jit_to_python), its translation rules and the      *)
(* dispatcher jit_to_python_function.                                       *)
(*                                                                         *)
(* Python values are records tagged by the field t.  A tensor that lives   *)
(* in speedup.internal_result is a shared object: a Python reference to it *)
(* is the value Ref(name), read through the current store, so an in-place  *)
(* change of the stored tensor is seen by every holder of the reference.   *)
(* Every other value is private to its holder.  A raised exception is the  *)
(* value Raise(exc, arg); every operator passes it on unchanged, as Python *)
(* unwinds.                                                                *)
(***************************************************************************)
EXTENDS Integers, Sequences, FiniteSets, TLC

VARIABLES internal_result, lit, ret, applied

vars == <<internal_result, lit, ret, applied>>

\* ------------------------------------------------------------------ bounds
\* Largest element of a stored tensor (elements range over -1..MaxVal).
MaxVal == 1
\* Largest value of the mutable integer literal of the graph.
MaxLit == 1
\* Largest extent of a dimension of the tensor sliced in SpecSlice.
MaxDim == 3
\* Most parse_constant calls one resolution may make in SpecTerm.
MaxCalls == 8

\* ------------------------------------------------------------ Python values
None == [t |-> "None"]
PyInt(n) == [t |-> "int", v |-> n]
Ref(name) == [t |-> "ref", name |-> name]
List(items) == [t |-> "list", items |-> items]
Tuple(items) == [t |-> "tuple", items |-> items]
SliceObj(start, stop, step) == [t |-> "slice", start |-> start, stop |-> stop, step |-> step]
Raise(exc, arg) == [t |-> "raise", exc |-> exc, arg |-> arg]
Callable(f, args, kw) == [t |-> "callable", f |-> f, args |-> args, kw |-> kw]
PyBool(b) == [t |-> "bool", v |-> b]
PyStr(chars) == [t |-> "str", s |-> chars]
PySet(items) == [t |-> "set", items |-> items]
\* A torch.dtype object.
Dtype(name) == [t |-> "dtype", name |-> name]
\* A torch.device: its type and its index, -1 when it has none.
Device(type, index) == [t |-> "device", type |-> type, index |-> index]
\* A Python float (a double), named by the significant decimal digits that
\* identify it (no leading or trailing zero, none for zero) and the decimal
\* exponent x of the first of them: the value is d1.d2d3... * 10^x.
PyFloat(neg, ds, x) == [t |-> "float", neg |-> neg, ds |-> ds, x |-> x]
\* float('inf') and float('-inf').
PyInf(neg) == PyFloat(neg, <<"inf">>, 0)
IsRaise(v) == v.t = "raise"

\* The index tuples of a tensor of the given shape (0-based, as in torch).
Idx(shape) ==
    LET top == IF shape = <<>> THEN 0
               ELSE CHOOSE m \in {shape[j] : j \in DOMAIN shape} :
                        \A j \in DOMAIN shape : shape[j] <= m
    IN {f \in [DOMAIN shape -> 0..(top - 1)] : \A j \in DOMAIN shape : f[j] < shape[j]}

\* A private tensor: its shape, its elements by index tuple, and the
\* elementwise functions applied to it whose values are not integers
\* (kept symbolically, in application order).  Tensors are created as
\* torch.long on the cpu unless an operation says otherwise.
Tensor(shape, data) ==
    [t |-> "tensor", shape |-> shape, data |-> data, sym |-> <<>>,
     dtype |-> "long", device |-> Device("cpu", -1)]

Vec(elems) == Tensor(<<Len(elems)>>, [ix \in Idx(<<Len(elems)>>) |-> elems[ix[1] + 1]])
Scalar(n) == Tensor(<<>>, [ix \in Idx(<<>>) |-> n])

\* The world a call runs in: the result store speedup.internal_result, the
\* records the module's logger has emitted, and the trace of the calls made
\* (parse_constant entries and returns, rule invocations, callable
\* invocations made by parse_constant).
World(st, log, tr) == [st |-> st, log |-> log, tr |-> tr]
R(w, v) == [w |-> w, v |-> v]
Ev(w, e) == [w EXCEPT !.tr = Append(@, e)]

\* The content of a value: a reference is read through the store.
Deref(v, st) == IF v.t = "ref" THEN st[v.name] ELSE v

\* ----------------------------------------------------------------- logging
\* logger.setLevel(logging.INFO): records below INFO are discarded.
LoggerLevel == "INFO"
LevelNo(level) == CASE level = "DEBUG" -> 1 [] level = "INFO" -> 2 [] level = "ERROR" -> 4
isEnabledFor(level) == LevelNo(level) >= LevelNo(LoggerLevel)
Log(w, level, msg, arg) ==
    IF isEnabledFor(level)
    THEN [w EXCEPT !.log = Append(@, [level |-> level, msg |-> msg, arg |-> arg])]
    ELSE w

\* ------------------------------------------------------------------- graph
\* A torch._C.Node: its kind(), its inputs() (debug names of values) and the
\* debug name of its output.  A NodeGroup (what jit_to_python_function is
\* given) has op_type and key_node; a torch._C.Node has neither.
Node(kind, inputs, out) == [cls |-> "Node", kind |-> kind, inputs |-> inputs, out |-> out]
NodeGroup(op_type, key_node) == [cls |-> "NodeGroup", op_type |-> op_type, key_node |-> key_node]

\* The values of the graph the model exercises, by debug name.
ConstNames == {"c", "d0", "d1", "none", "sd", "ss", "se", "sk", "wt", "k", "dt", "dev", "nb"}
Names == ConstNames \cup {"x", "r", "q", "u", "uu", "m", "um", "sz", "nt", "i", "shp", "shx", "tu",
                           "dd"}

\* value.node(): the one producer of each value (single assignment).
producer(name) ==
    CASE name \in ConstNames -> Node("prim::Constant", <<>>, name)
      [] name = "x"   -> Node("prim::Param", <<>>, name)
      [] name = "r"   -> Node("aten::relu_", <<"x">>, name)
      [] name = "q"   -> Node("aten::relu", <<"r">>, name)
      [] name = "u"   -> Node("custom::unknown_op", <<"x">>, name)
      [] name = "uu"  -> Node("custom::other_op", <<"c", "u">>, name)
      [] name = "m"   -> Node("aten::mul", <<"x", "c">>, name)
      [] name = "um"  -> Node("custom::third_op", <<"m">>, name)
      [] name = "sz"  -> Node("aten::size", <<"x", "d0">>, name)
      [] name = "nt"  -> Node("prim::NumToTensor", <<"sz">>, name)
      [] name = "i"   -> Node("aten::Int", <<"nt">>, name)
      [] name = "shp" -> Node("prim::ListConstruct", <<"d1", "i", "c">>, name)
      [] name = "shx" -> Node("prim::ListConstruct", <<"d1", "x">>, name)
      [] name = "tu"  -> Node("prim::TupleUnpack", <<"x">>, name)
      [] name = "dd"  -> Node("aten::add", <<"q", "q">>, name)

\* value.toIValue(): the literal the value carries at graph level, None when
\* it carries none.  A fresh Python object on every call.
toIValue(name) == lit[name]

\* ---------------------------------------------------------------- registry
RegistryPairs ==
    { <<"aten::add", "add_python">>, <<"aten::add_", "add_python">>,
      <<"aten::sub", "sub_python">>, <<"aten::sub_", "sub_python">>,
      <<"aten::mul", "mul_python">>, <<"aten::mul_", "mul_python">>,
      <<"aten::relu", "relu_python">>, <<"aten::relu_", "relu_inplace_python">>,
      <<"aten::sigmoid", "sigmoid_python">>, <<"aten::sigmoid_", "sigmoid_python">>,
      <<"aten::tanh", "relu_python">>, <<"aten::tanh_", "relu_python">>,
      <<"aten::flatten", "flatten_python">>, <<"aten::mean", "mean_python">>,
      <<"aten::dropout", "dropout_python">>, <<"aten::slice", "slice_python">>,
      <<"aten::select", "select_python">>, <<"aten::size", "size_python">>,
      <<"aten::t", "transpose_python">>, <<"aten::transpose", "transpose2_python">>,
      <<"aten::Int", "toint_python">>, <<"aten::view", "view_python">>,
      <<"aten::reshape", "reshape_python">>, <<"aten::permute", "permute_python">>,
      <<"aten::matmul", "matmul_python">>, <<"aten::div", "div_python">>,
      <<"aten::floor_divide", "floor_div_python">>, <<"aten::softmax", "softmax_python">>,
      <<"aten::contiguous", "contiguous_python">>, <<"aten::gelu", "gelu_python">>,
      <<"aten::cat", "cat_python">>, <<"aten::avg_pool2d", "avgpool2d_python">>,
      <<"aten::max_pool2d", "avgpool2d_python">>,
      <<"aten::adaptive_avg_pool2d", "adaptive_avgpool_python">>,
      <<"aten::to", "to_python">>, <<"aten::type_as", "typeas_python">>,
      <<"aten::upsample_bilinear2d", "upsample_bilinear2d_python">>,
      <<"aten::upsample_nearest2d", "upsample_nearest2d_python">>,
      <<"aten::exp", "exp_python">>, <<"aten::squeeze", "squeeze_python">>,
      <<"aten::unsqueeze", "unsqueeze_python">>, <<"aten::ones", "ones_python">>,
      <<"aten::zeros", "zeros_python">>, <<"aten::rsub", "rsub_python">>,
      <<"aten::expand", "expand_python">>, <<"prim::TupleUnpack", "tupleunpack_python">>,
      <<"prim::ListUnpack", "tupleunpack_python">>,
      <<"prim::NumToTensor", "num2tensor_python">>, <<"prim::GetAttr", "getattr_python">>,
      <<"prim::Constant", "constant_python">>,
      <<"aten::constant_pad_nd", "constant_pad_nd_python">>,
      <<"aten::silu", "silu_python">>, <<"aten::expand_as", "expandas_python">> }

\* The dict jitid_2_dtype: dtype code -> torch dtype.
jitid_2_dtype == (4 :> Dtype("long")) @@ (6 :> Dtype("float32"))

\* The dict trans_from_jit_to_python: opcode -> translation rule.
trans_from_jit_to_python ==
    [k \in {p[1] : p \in RegistryPairs} |-> (CHOOSE p \in RegistryPairs : p[1] = k)[2]]

\* ------------------------------------------------------------ tensor algebra
RECURSIVE Prod(_)
Prod(s) == IF s = <<>> THEN 1 ELSE Head(s) * Prod(Tail(s))

\* Row-major position of an index tuple.
RECURSIVE Lin(_, _)
Lin(ix, shape) ==
    IF ix = <<>> THEN 0
    ELSE LET n == Len(ix)
         IN Lin(SubSeq(ix, 1, n - 1), SubSeq(shape, 1, n - 1)) * shape[n] + ix[n]

Maximum(a, b) == IF a >= b THEN a ELSE b
Minimum(a, b) == IF a <= b THEN a ELSE b

\* A number or a tensor as a tensor (torch treats a Python number as 0-d).
IsNumeric(v) == v.t \in {"int", "tensor"}
AsTensor(v) == IF v.t = "int" THEN Scalar(v.v) ELSE v

\* Broadcasting of two shapes, aligned at the last dimension.
DimAt(shape, j, n) == IF j > n - Len(shape) THEN shape[j - (n - Len(shape))] ELSE 1
Broadcastable(s1, s2) ==
    LET n == Maximum(Len(s1), Len(s2))
    IN \A j \in 1..n : \/ DimAt(s1, j, n) = DimAt(s2, j, n)
                       \/ DimAt(s1, j, n) = 1
                       \/ DimAt(s2, j, n) = 1

BroadcastShape(s1, s2) ==
    LET n == Maximum(Len(s1), Len(s2))
    IN [j \in 1..n |-> Maximum(DimAt(s1, j, n), DimAt(s2, j, n))]

\* The element of tensor a that result index ix (of shape rs) reads.
At(a, ix, rs) ==
    a.data[[j \in DOMAIN a.shape |->
              IF a.shape[j] = 1 THEN 0 ELSE ix[j + (Len(rs) - Len(a.shape))]]]

FloorDiv(m, n) == IF n > 0 THEN m \div n ELSE (0 - m) \div (0 - n)
Arith(op, m, n) ==
    CASE op = "add" -> m + n
      [] op = "sub" -> m - n
      [] op = "mul" -> m * n
      [] op = "floor_divide" -> FloorDiv(m, n)

\* torch.<op>(input, other, alpha=alpha) on numbers and tensors whose
\* elements are integers; true division is kept symbolically.
Elementwise(op, input, other, alpha) ==
    LET a == AsTensor(input)
        b == AsTensor(other)
    IN IF ~Broadcastable(a.shape, b.shape)
       THEN Raise("RuntimeError", "size of tensors must match")
       ELSE LET rs == BroadcastShape(a.shape, b.shape)
            IN IF op = "div"
               THEN [Tensor(rs, [ix \in Idx(rs) |-> At(a, ix, rs)])
                       EXCEPT !.sym = <<[f |-> "div", other |-> b]>>, !.dtype = "float32"]
               ELSE IF op = "floor_divide" /\ \E ix \in Idx(rs) : At(b, ix, rs) = 0
               THEN Raise("RuntimeError", "ZeroDivisionError")
               ELSE Tensor(rs, [ix \in Idx(rs) |-> Arith(op, At(a, ix, rs), alpha * At(b, ix, rs))])

\* An elementwise function of one tensor.  relu keeps integers; the others
\* are recorded symbolically.
Symbolic(f, x) == [x EXCEPT !.sym = Append(@, [f |-> f]), !.dtype = "float32"]
Relu(x) ==
    IF x.sym = <<>>
    THEN [x EXCEPT !.data = [ix \in DOMAIN x.data |-> Maximum(x.data[ix], 0)]]
    ELSE [x EXCEPT !.sym = Append(@, [f |-> "relu"])]

\* tensor.item(): the Python number of a one-element tensor.
Item(x) ==
    IF Cardinality(DOMAIN x.data) = 1
    THEN PyInt(x.data[CHOOSE ix \in DOMAIN x.data : TRUE])
    ELSE Raise("ValueError", "only one element tensors can be converted to Python scalars")

\* ------------------------------------------------------------------ indexing
\* A slice bound as Python's __index__ gives it: None stays None, a number
\* is itself, a one-element tensor is its element.
IndexOf(v, st) ==
    LET c == Deref(v, st)
    IN CASE c.t \in {"None", "int"} -> c
         [] c.t = "tensor" -> Item(c)
         [] OTHER -> Raise("TypeError", "slice indices must be integers or None")

\* slice.indices(n) for a positive step: the first index, the step and the
\* number of indices selected.
Clamp(k, n) == IF k < 0 THEN Maximum(k + n, 0) ELSE Minimum(k, n)
\* The range of a slice whose bounds a, b and step k have been read.
SliceRange(a, b, k, n) ==
    IF IsRaise(a) THEN a
    ELSE IF IsRaise(b) THEN b
    ELSE IF IsRaise(k) THEN k
    ELSE LET step == IF k = None THEN 1 ELSE k.v
             start == IF a = None THEN 0 ELSE Clamp(a.v, n)
             stop == IF b = None THEN n ELSE Clamp(b.v, n)
         IN IF step <= 0 THEN Raise("ValueError", "step must be greater than zero")
            ELSE [t |-> "range", start |-> start, step |-> step,
                  count |-> IF stop > start THEN (stop - start + step - 1) \div step ELSE 0]

SliceIndices(s, n, st) ==
    SliceRange(IndexOf(s.start, st), IndexOf(s.stop, st), IndexOf(s.step, st), n)

\* x[index] for a tuple of slice objects: dimension j is restricted by the
\* j-th slice, the dimensions after the last slice are kept whole.
GetItem(x, index, st) ==
    LET Restrict(n, rg) ==
            IF \E j \in 1..n : IsRaise(rg[j])
            THEN rg[CHOOSE j \in 1..n : IsRaise(rg[j]) /\ \A h \in 1..(j - 1) : ~IsRaise(rg[h])]
            ELSE LET rs == [j \in DOMAIN x.shape |-> IF j <= n THEN rg[j].count ELSE x.shape[j]]
                 IN [x EXCEPT !.shape = rs,
                              !.data = [ix \in Idx(rs) |->
                                          x.data[[j \in DOMAIN rs |->
                                                    IF j <= n
                                                    THEN rg[j].start + rg[j].step * ix[j]
                                                    ELSE ix[j]]]]]
    IN IF Len(index.items) > Len(x.shape)
       THEN Raise("IndexError", "too many indices for tensor")
       ELSE Restrict(Len(index.items),
                     [j \in 1..Len(index.items) |->
                        SliceIndices(index.items[j], x.shape[j], st)])

\* x.view(shape) / x.reshape(shape): the elements in row-major order under a
\* new shape; one -1 stands for the extent that makes the sizes agree.
ViewAs(x, shape) ==
    IF shape.t \notin {"list", "tuple"} \/ \E j \in DOMAIN shape.items : shape.items[j].t # "int"
    THEN Raise("TypeError", "shape must be a sequence of ints")
    ELSE LET want == [j \in DOMAIN shape.items |-> shape.items[j].v]
             holes == {j \in DOMAIN want : want[j] = -1}
             known == Prod([j \in DOMAIN want |-> IF j \in holes THEN 1 ELSE want[j]])
             total == Prod(x.shape)
         IN IF \/ Cardinality(holes) > 1
               \/ \E j \in DOMAIN want : want[j] < -1
               \/ holes # {} /\ (known = 0 \/ total % Maximum(known, 1) # 0)
               \/ holes = {} /\ known # total
            THEN Raise("RuntimeError", "shape is invalid for input size")
            ELSE LET rs == [j \in DOMAIN want |->
                              IF j \in holes THEN total \div known ELSE want[j]]
                 IN [x EXCEPT !.shape = rs,
                              !.data = [ix \in Idx(rs) |->
                                          x.data[CHOOSE jx \in Idx(x.shape) :
                                                     Lin(jx, x.shape) = Lin(ix, rs)]]]

\* x.permute(dims): dimension j of the result is dimension dims[j] of x.
Permute(x, dims) ==
    IF dims.t \notin {"list", "tuple"} \/ \E j \in DOMAIN dims.items : dims.items[j].t # "int"
    THEN Raise("TypeError", "dims must be a sequence of ints")
    ELSE LET n == Len(x.shape)
             d == [j \in DOMAIN dims.items |->
                     IF dims.items[j].v < 0 THEN dims.items[j].v + n ELSE dims.items[j].v]
         IN IF Len(d) # n \/ {d[j] : j \in DOMAIN d} # 0..(n - 1)
            THEN Raise("RuntimeError", "permute: dims do not match the tensor")
            ELSE LET rs == [j \in 1..n |-> x.shape[d[j] + 1]]
                 IN [x EXCEPT !.shape = rs,
                              !.data = [ix \in Idx(rs) |->
                                          x.data[[h \in 1..n |->
                                                    ix[CHOOSE j \in 1..n : d[j] + 1 = h]]]]]

\* x.expand(sizes): -1 keeps an extent, an extent of 1 is repeated, new
\* dimensions are added in front.
Expand(x, sizes) ==
    IF sizes.t \notin {"list", "tuple"} \/ \E j \in DOMAIN sizes.items : sizes.items[j].t # "int"
    THEN Raise("TypeError", "sizes must be a sequence of ints")
    ELSE LET n == Len(sizes.items)
             off == n - Len(x.shape)
             rs == [j \in 1..n |->
                      IF sizes.items[j].v = -1 /\ j > off THEN x.shape[j - off]
                      ELSE sizes.items[j].v]
         IN IF \/ off < 0
               \/ \E j \in 1..n : rs[j] < 0
               \/ \E j \in (off + 1)..n : x.shape[j - off] \notin {1, rs[j]}
            THEN Raise("RuntimeError", "the expanded size must match the existing size")
            ELSE [x EXCEPT !.shape = rs, !.data = [ix \in Idx(rs) |-> At(x, ix, rs)]]

\* x.select(dim, index): the slice of x at one index of one dimension.
Select(x, dim, index) ==
    IF dim.t # "int" \/ index.t # "int"
    THEN Raise("TypeError", "select(): arguments must be ints")
    ELSE LET n == Len(x.shape)
             d == IF dim.v < 0 THEN dim.v + n ELSE dim.v
         IN IF d < 0 \/ d >= n THEN Raise("IndexError", "Dimension out of range")
            ELSE LET k == IF index.v < 0 THEN index.v + x.shape[d + 1] ELSE index.v
                     rs == [j \in 1..(n - 1) |-> IF j <= d THEN x.shape[j] ELSE x.shape[j + 1]]
                 IN IF k < 0 \/ k >= x.shape[d + 1]
                    THEN Raise("IndexError", "select(): index out of range")
                    ELSE [x EXCEPT !.shape = rs,
                                   !.data = [ix \in Idx(rs) |->
                                               x.data[[j \in 1..n |->
                                                         IF j <= d THEN ix[j]
                                                         ELSE IF j = d + 1 THEN k
                                                         ELSE ix[j - 1]]]]]

\* x.to(device, dtype=dtype): the tensor on that device with that dtype; a
\* cuda device without index is the current one, cuda:0.
To(x, device, dtype) ==
    [x EXCEPT !.device = IF device.type = "cuda" /\ device.index < 0
                         THEN Device("cuda", 0) ELSE device,
              !.dtype = dtype.name]

\* ----------------------------------------------------- invoking a callable
\* A stateful operator object (a torch.nn.Module): its class and attributes.
Module(cls, state) == Callable(cls, <<>>, state)

TorchBinary == {"torch.add", "torch.sub", "torch.mul", "torch.div", "torch.floor_divide"}
OpOf(f) ==
    CASE f = "torch.add" -> "add" [] f = "torch.sub" -> "sub" [] f = "torch.mul" -> "mul"
      [] f = "torch.div" -> "div" [] f = "torch.floor_divide" -> "floor_divide"

\* torch.<op>(*p, **kw) with the signature (input, other, *, alpha=1).
BinCall(op, p, kw, st) ==
    LET kwIn == "input" \in DOMAIN kw
        kwOther == "other" \in DOMAIN kw
    IN IF \/ Len(p) > 2
          \/ kwIn /\ Len(p) >= 1
          \/ kwOther /\ Len(p) >= 2
          \/ ~kwIn /\ Len(p) = 0
          \/ ~kwOther /\ Len(p) < 2
       THEN Raise("TypeError", "invalid combination of arguments")
       ELSE LET input == Deref(IF kwIn THEN kw.input ELSE p[1], st)
                other == Deref(IF kwOther THEN kw.other ELSE p[2], st)
                alpha == IF "alpha" \in DOMAIN kw THEN kw.alpha ELSE PyInt(1)
            IN IF ~IsNumeric(input) \/ ~IsNumeric(other) \/ alpha.t # "int"
               THEN Raise("TypeError", "invalid combination of arguments")
               ELSE Elementwise(op, input, other, alpha.v)

\* f(*args) for a translated callable f (or whatever a rule returned), in
\* world w.  The only callable that changes a tensor it is given is
\* torch.relu_, which works in place and returns its argument.
Call(f, args, w) ==
    IF f.t # "callable" THEN R(w, Raise("TypeError", "object is not callable"))
    ELSE
    LET p == f.args \o args
        st == w.st
        x == Deref(p[1], st)
        OneTensor == Len(p) = 1 /\ x.t = "tensor"
        BadArgs == R(w, Raise("TypeError", "invalid arguments"))
    IN CASE f.f \in TorchBinary -> R(w, BinCall(OpOf(f.f), p, f.kw, st))
         [] f.f = "torch.relu" -> IF OneTensor THEN R(w, Relu(x)) ELSE BadArgs
         [] f.f = "torch.relu_" ->
              IF ~OneTensor THEN BadArgs
              ELSE IF p[1].t = "ref"
              THEN R([w EXCEPT !.st[p[1].name] = Relu(@)], p[1])
              ELSE R(w, Relu(x))
         [] f.f = "torch.sigmoid" -> IF OneTensor THEN R(w, Symbolic("sigmoid", x)) ELSE BadArgs
         [] f.f = "Identity" -> IF Len(p) = 1 THEN R(w, p[1]) ELSE BadArgs
         [] f.f = "ToIntModule" ->
              IF ~OneTensor THEN BadArgs
              ELSE IF x.dtype = "int" THEN R(w, p[1])
              ELSE R(w, [x EXCEPT !.dtype = "int"])
         [] f.f = "ConstantModule" -> IF Len(p) = 0 THEN R(w, f.kw.constant) ELSE BadArgs
         [] f.f = "SliceMoudle" ->
              IF Len(p) = 0 THEN BadArgs
              ELSE IF x.t # "tensor" THEN BadArgs
              ELSE R(Log(w, "INFO", "Model has Slice operation", ""),
                     GetItem(x, f.kw.sliceobj, st))
         [] f.f = "constant_slice" ->
              LET target == Deref(f.kw.target_tensor, st)
              IN IF target.t # "tensor" THEN BadArgs
                 ELSE R(w, GetItem(target, f.kw.slice_list, st))
         [] f.f \in {"ViewModule", "ReshapeModule"} ->
              IF Len(p) = 0 THEN R(w, Raise("IndexError", "tuple index out of range"))
              ELSE IF x.t # "tensor" THEN BadArgs
              ELSE R(w, ViewAs(x, f.kw.shape))
         [] f.f = "PermuteModule" ->
              IF OneTensor THEN R(w, Permute(x, f.kw.dimlist)) ELSE BadArgs
         [] f.f = "ExpandModule" ->
              IF Len(p) = 0 THEN R(w, Raise("IndexError", "tuple index out of range"))
              ELSE IF x.t # "tensor" THEN BadArgs
              ELSE R(w, Expand(x, f.kw.new_size))
         [] f.f = "SelectModule" ->
              IF OneTensor THEN R(w, Select(x, f.kw.dim, f.kw.index)) ELSE BadArgs
         [] f.f = "ToModule" ->
              IF OneTensor THEN R(w, To(x, f.kw.device, f.kw.dtype)) ELSE BadArgs

\* ------------------------------------------------------------ the resolver
RECURSIVE DeepCopy(_, _)
\* copy.deepcopy(v): a private copy; a referenced stored tensor is copied
\* as it is now.
DeepCopy(v, st) ==
    CASE v.t = "ref" -> st[v.name]
      [] v.t \in {"list", "tuple"} ->
           [v EXCEPT !.items = [j \in DOMAIN v.items |-> DeepCopy(v.items[j], st)]]
      [] v.t = "slice" ->
           SliceObj(DeepCopy(v.start, st), DeepCopy(v.stop, st), DeepCopy(v.step, st))
      [] OTHER -> v

\* Variant of ListValues: the literal is asked before the store.
ListValues_literal_first(inputs, speedup, st) ==
    [j \in DOMAIN inputs |->
       IF toIValue(inputs[j]) # None THEN toIValue(inputs[j])
       ELSE IF speedup /\ inputs[j] \in DOMAIN st
       THEN Item(st[inputs[j]])
       ELSE None]

\* The values translate_list collects for the inputs of a list node: the
\* .item() of the stored tensor when a speedup is given and the name is in
\* the store, the literal (or None) otherwise.
ListValues(inputs, speedup, st) ==
    [j \in DOMAIN inputs |->
       IF speedup /\ inputs[j] \in DOMAIN st
       THEN Item(st[inputs[j]])
       ELSE toIValue(inputs[j])]

\* The list of the values, or the first exception met while collecting them.
ListOf(values) ==
    IF \E j \in DOMAIN values : IsRaise(values[j])
    THEN values[CHOOSE j \in DOMAIN values :
                    IsRaise(values[j]) /\ \A h \in 1..(j - 1) : ~IsRaise(values[h])]
    ELSE List(values)

\* translate_list(list_node, speedup): the values of a prim::ListConstruct.
\* An input whose name is in the store gives the stored tensor's .item(),
\* any other input gives its literal (None when it has none).
translate_list(list_node, speedup, w) ==
    LET values(create_node) ==
            IF create_node.kind # "prim::ListConstruct"
            THEN R(w, Raise("AssertionError", create_node.kind))
            ELSE R(w, ListOf(ListValues(create_node.inputs, speedup, w.st)))
    IN values(producer(list_node))

RECURSIVE parse_constant(_, _, _)
RECURSIVE ParseInputs(_, _, _)
RECURSIVE Rule(_, _, _, _)

\* [parse_constant(_i, speedup) for _i in inputs]: in input order, stopping
\* at the first exception.
ParseInputs(inputs, w, d) ==
    LET Cons(h, rest) ==
            IF IsRaise(rest.v) THEN rest
            ELSE R(rest.w, List(<<h.v>> \o rest.v.items))
        Rest(h) ==
            IF IsRaise(h.v) THEN h
            ELSE Cons(h, ParseInputs(Tail(inputs), h.w, d))
    IN IF inputs = <<>> THEN R(w, List(<<>>))
       ELSE Rest(parse_constant(Head(inputs), w, d))

\* Variant of parse_constant: the store is asked before the literal.
parse_constant_store_first(cvalue, w, d) ==
    LET w1 == Log(Ev(w, [e |-> "parse_constant", a |-> cvalue, d |-> d]),
                  "DEBUG", "Try to parse the constant value", cvalue)
        done == [e |-> "return", a |-> cvalue, d |-> d]
        Returns(result) ==
            IF IsRaise(result.v) THEN result
            ELSE R(Ev(result.w, done), result.v)
        Invoke(func, input_values) ==
            IF IsRaise(func.v) THEN func
            ELSE Returns(Call(func.v, input_values,
                              Ev(func.w, [e |-> "call", a |-> cvalue, d |-> d,
                                          f |-> func.v, args |-> input_values])))
        Translate(op_node, input_values) ==
            IF IsRaise(input_values.v) THEN input_values
            ELSE IF op_node.kind \notin DOMAIN trans_from_jit_to_python
            THEN R(input_values.w, Raise("KeyError", op_node.kind))
            ELSE Invoke(Rule(trans_from_jit_to_python[op_node.kind], op_node,
                             input_values.w, d),
                        input_values.v.items)
        Fold(op_node) == Translate(op_node, ParseInputs(op_node.inputs, w1, d + 1))
    IN IF cvalue \in DOMAIN w1.st THEN R(Ev(w1, done), Ref(cvalue))
       ELSE IF toIValue(cvalue) # None THEN R(Ev(w1, done), toIValue(cvalue))
       ELSE Fold(producer(cvalue))

\* Variant of parse_constant: a producer without a rule folds to None.
parse_constant_default(cvalue, w, d) ==
    LET w1 == Log(Ev(w, [e |-> "parse_constant", a |-> cvalue, d |-> d]),
                  "DEBUG", "Try to parse the constant value", cvalue)
        done == [e |-> "return", a |-> cvalue, d |-> d]
        Returns(result) ==
            IF IsRaise(result.v) THEN result
            ELSE R(Ev(result.w, done), result.v)
        Invoke(func, input_values) ==
            IF IsRaise(func.v) THEN func
            ELSE Returns(Call(func.v, input_values,
                              Ev(func.w, [e |-> "call", a |-> cvalue, d |-> d,
                                          f |-> func.v, args |-> input_values])))
        Translate(op_node, input_values) ==
            IF IsRaise(input_values.v) THEN input_values
            ELSE IF op_node.kind \notin DOMAIN trans_from_jit_to_python
            THEN R(Ev(input_values.w, done), None)
            ELSE Invoke(Rule(trans_from_jit_to_python[op_node.kind], op_node,
                             input_values.w, d),
                        input_values.v.items)
        Fold(op_node) == Translate(op_node, ParseInputs(op_node.inputs, w1, d + 1))
    IN IF toIValue(cvalue) # None THEN R(Ev(w1, done), toIValue(cvalue))
       ELSE IF cvalue \in DOMAIN w1.st THEN R(Ev(w1, done), Ref(cvalue))
       ELSE Fold(producer(cvalue))

\* parse_constant(cvalue, speedup), called at recursion depth d.
parse_constant(cvalue, w, d) ==
    LET w1 == Log(Ev(w, [e |-> "parse_constant", a |-> cvalue, d |-> d]),
                  "DEBUG", "Try to parse the constant value", cvalue)
        done == [e |-> "return", a |-> cvalue, d |-> d]
        Returns(result) ==
            IF IsRaise(result.v) THEN result
            ELSE R(Ev(result.w, done), result.v)
        Invoke(func, input_values) ==
            IF IsRaise(func.v) THEN func
            ELSE Returns(Call(func.v, input_values,
                              Ev(func.w, [e |-> "call", a |-> cvalue, d |-> d,
                                          f |-> func.v, args |-> input_values])))
        Translate(op_node, input_values) ==
            IF IsRaise(input_values.v) THEN input_values
            ELSE IF op_node.kind \notin DOMAIN trans_from_jit_to_python
            THEN R(input_values.w, Raise("KeyError", op_node.kind))
            ELSE Invoke(Rule(trans_from_jit_to_python[op_node.kind], op_node,
                             input_values.w, d),
                        input_values.v.items)
        Fold(op_node) == Translate(op_node, ParseInputs(op_node.inputs, w1, d + 1))
    IN IF toIValue(cvalue) # None THEN R(Ev(w1, done), toIValue(cvalue))
       ELSE IF cvalue \in DOMAIN w1.st THEN R(Ev(w1, done), Ref(cvalue))
       ELSE Fold(producer(cvalue))

\* ------------------------------------------------------ translation rules
\* node.key_node: only a NodeGroup has it.
NoKeyNode(w) == R(w, Raise("AttributeError", "key_node"))
NoInput(w) == R(w, Raise("IndexError", "list index out of range"))
Plain(f) == Callable(f, <<>>, <<>>)

\* The rules that look at nothing and return a fixed callable (or None).
SimpleRules ==
    [ dropout_python |-> Plain("torch.dropout"),
      relu_inplace_python |-> Plain("torch.relu_"),
      relu_python |-> Plain("torch.relu"),
      sigmoid_python |-> Plain("torch.sigmoid"),
      transpose_python |-> Plain("torch.t"),
      matmul_python |-> Plain("torch.matmul"),
      contiguous_python |-> Plain("contiguousModule"),
      gelu_python |-> Plain("GELU"),
      silu_python |-> Plain("SiLU"),
      tupleunpack_python |-> None,
      num2tensor_python |-> Plain("Identity"),
      exp_python |-> Plain("torch.exp"),
      toint_python |-> Plain("ToIntModule"),
      typeas_python |-> Plain("TypeasModule"),
      expandas_python |-> Plain("ExpandasModule") ]

\* The operands of add_python / sub_python that are folded: not in the
\* store and carrying a literal.  The loop stops at the first one.
LiteralOperands(inputs, st) ==
    {i \in 1..2 : i <= Len(inputs) /\ inputs[i] \notin DOMAIN st /\ toIValue(inputs[i]) # None}

Least(S) == CHOOSE i \in S : \A j \in S : i <= j

\* Variant of add_python: "if constant" in place of "if constant is None",
\* so that a literal 0 counts as no constant.
add_python_truthy(node, w, d) ==
    IF node.cls # "NodeGroup" THEN NoKeyNode(w)
    ELSE LET inputs == node.key_node.inputs
             hit == LiteralOperands(inputs, w.st)
             new_add(constant) ==
                 IF IsRaise(constant.v) THEN constant
                 ELSE IF constant.v = None \/ constant.v = PyInt(0)
                 THEN R(constant.w, Plain("torch.add"))
                 ELSE R(constant.w, Callable("torch.add", <<constant.v>>, <<>>))
         IN IF Len(inputs) = 0 \/ (Len(inputs) = 1 /\ hit = {}) THEN NoInput(w)
            ELSE IF hit = {} THEN R(w, Plain("torch.add"))
            ELSE new_add(parse_constant(inputs[Least(hit)], w, d + 1))

add_python(node, w, d) ==
    IF node.cls # "NodeGroup" THEN NoKeyNode(w)
    ELSE LET inputs == node.key_node.inputs
             hit == LiteralOperands(inputs, w.st)
             new_add(constant) ==
                 IF IsRaise(constant.v) THEN constant
                 ELSE IF constant.v = None THEN R(constant.w, Plain("torch.add"))
                 ELSE R(constant.w, Callable("torch.add", <<constant.v>>, <<>>))
         IN IF Len(inputs) = 0 \/ (Len(inputs) = 1 /\ hit = {}) THEN NoInput(w)
            ELSE IF hit = {} THEN R(w, Plain("torch.add"))
            ELSE new_add(parse_constant(inputs[Least(hit)], w, d + 1))

sub_python(node, w, d) ==
    IF node.cls # "NodeGroup" THEN NoKeyNode(w)
    ELSE LET inputs == node.key_node.inputs
             hit == LiteralOperands(inputs, w.st)
             new_sub(i, c) ==
                 LET constant == List([j \in 1..2 |-> IF j = i THEN c.v ELSE None])
                 IN IF IsRaise(c.v) THEN c
                    ELSE IF constant.items[1] = None /\ constant.items[2] = None
                    THEN R(c.w, Plain("torch.sub"))
                    ELSE IF constant.items[1] # None
                    THEN R(c.w, Callable("torch.sub", <<>>, [input |-> constant]))
                    ELSE R(c.w, Callable("torch.sub", <<>>, [other |-> constant]))
         IN IF Len(inputs) = 0 \/ (Len(inputs) = 1 /\ hit = {}) THEN NoInput(w)
            ELSE IF hit = {} THEN R(w, Plain("torch.sub"))
            ELSE new_sub(Least(hit), parse_constant(inputs[Least(hit)], w, d + 1))

floor_div_python(node, w, d) ==
    IF node.cls # "NodeGroup" THEN NoKeyNode(w)
    ELSE LET inputs == node.key_node.inputs
             new_op(constant) ==
                 IF IsRaise(constant.v) THEN constant
                 ELSE IF constant.v = None THEN R(constant.w, Plain("torch.floor_divide"))
                 ELSE R(constant.w,
                        Callable("torch.floor_divide", <<>>, [other |-> constant.v]))
         IN IF Len(inputs) < 2 THEN NoInput(w)
            ELSE IF inputs[2] \in DOMAIN w.st THEN R(w, Plain("torch.floor_divide"))
            ELSE new_op(parse_constant(inputs[2], w, d + 1))

mul_python(node, w, d) ==
    IF node.cls # "NodeGroup" THEN NoKeyNode(w)
    ELSE LET inputs == node.key_node.inputs
             hit == {i \in 1..2 : i <= Len(inputs) /\ inputs[i] \notin DOMAIN w.st}
             new_mul(constant) ==
                 IF IsRaise(constant.v) THEN constant
                 ELSE IF constant.v = None THEN R(constant.w, Plain("torch.mul"))
                 ELSE R(constant.w, Callable("torch.mul", <<constant.v>>, <<>>))
         IN IF Len(inputs) = 0 \/ (Len(inputs) = 1 /\ hit = {}) THEN NoInput(w)
            ELSE IF hit = {} THEN R(w, Plain("torch.mul"))
            ELSE new_mul(parse_constant(inputs[Least(hit)], w, d + 1))

div_python(node, w, d) ==
    IF node.cls # "NodeGroup" THEN NoKeyNode(w)
    ELSE LET inputs == node.key_node.inputs
         IN IF Len(inputs) < 2 THEN NoInput(w)
            ELSE IF inputs[2] \in DOMAIN w.st THEN R(w, Plain("torch.div"))
            ELSE R(w, Callable("torch.div", <<>>, [other |-> toIValue(inputs[2])]))

rsub_python(node, w, d) ==
    IF node.cls # "NodeGroup" THEN NoKeyNode(w)
    ELSE LET inputs == node.key_node.inputs
             new_sub(alpha, constant) ==
                 IF IsRaise(constant.v) THEN constant
                 ELSE IF constant.v = None
                 THEN R(constant.w, BinCall("sub", <<>>, <<>>, constant.w.st))
                 ELSE R(constant.w,
                        Callable("torch.sub", <<>>, [other |-> constant.v, alpha |-> alpha.v]))
             other(alpha) ==
                 IF IsRaise(alpha.v) THEN alpha
                 ELSE new_sub(alpha, IF inputs[2] \notin DOMAIN alpha.w.st
                                     THEN parse_constant(inputs[2], alpha.w, d + 1)
                                     ELSE R(alpha.w, None))
         IN IF Len(inputs) < 3 THEN NoInput(w)
            ELSE other(parse_constant(inputs[3], w, d + 1))

\* Variant of slice_python: the step is dropped from the slice object.
slice_python_no_step(node, w, d) ==
    IF node.cls # "NodeGroup" THEN NoKeyNode(w)
    ELSE LET inputs == node.key_node.inputs
             constant_slice(target_tensor, slice_list) ==
                 IF IsRaise(target_tensor.v) THEN target_tensor
                 ELSE R(target_tensor.w,
                        Module("constant_slice", [target_tensor |-> target_tensor.v,
                                                  slice_list |-> Tuple(slice_list)]))
             Build(w2, slice_list) ==
                 IF inputs[1] \notin DOMAIN w2.st
                 THEN constant_slice(parse_constant(inputs[1], w2, d + 1), slice_list)
                 ELSE R(w2, Module("SliceMoudle",
                                   [sliceobj |-> DeepCopy(Tuple(slice_list), w2.st)]))
             Index(cfg, slice_dim, slice_obj) ==
                 IF IsRaise(slice_dim) THEN R(cfg.w, slice_dim)
                 ELSE IF slice_dim = None
                 THEN R(cfg.w, Raise("TypeError", "NoneType is not an integer"))
                 ELSE Build(Log(cfg.w, "INFO", "Slice dim, Slice obj", ""),
                            [j \in 1..Maximum(slice_dim.v, 0) |-> SliceObj(None, None, None)]
                                \o <<slice_obj>>)
             Resolved(cfg) ==
                 IF IsRaise(cfg.v) THEN cfg
                 ELSE Index(cfg, IndexOf(cfg.v.items[1], cfg.w.st),
                            SliceObj(cfg.v.items[2], cfg.v.items[3], None))
         IN IF Len(inputs) < 5 THEN NoInput(w)
            ELSE Resolved(ParseInputs(SubSeq(inputs, 2, 5), w, d + 1))

\* slice_python: dim, start, end and step are resolved by parse_constant and
\* kept as resolved.  With the operand in the store the index goes into a
\* SliceMoudle, which deep-copies it; with a constant operand the closure
\* constant_slice keeps the operand and the index as they are.
slice_python(node, w, d) ==
    IF node.cls # "NodeGroup" THEN NoKeyNode(w)
    ELSE LET inputs == node.key_node.inputs
             constant_slice(target_tensor, slice_list) ==
                 IF IsRaise(target_tensor.v) THEN target_tensor
                 ELSE R(target_tensor.w,
                        Module("constant_slice", [target_tensor |-> target_tensor.v,
                                                  slice_list |-> Tuple(slice_list)]))
             Build(w2, slice_list) ==
                 IF inputs[1] \notin DOMAIN w2.st
                 THEN constant_slice(parse_constant(inputs[1], w2, d + 1), slice_list)
                 ELSE R(w2, Module("SliceMoudle",
                                   [sliceobj |-> DeepCopy(Tuple(slice_list), w2.st)]))
             Index(cfg, slice_dim, slice_obj) ==
                 IF IsRaise(slice_dim) THEN R(cfg.w, slice_dim)
                 ELSE IF slice_dim = None
                 THEN R(cfg.w, Raise("TypeError", "NoneType is not an integer"))
                 ELSE Build(Log(cfg.w, "INFO", "Slice dim, Slice obj", ""),
                            [j \in 1..Maximum(slice_dim.v, 0) |-> SliceObj(None, None, None)]
                                \o <<slice_obj>>)
             Resolved(cfg) ==
                 IF IsRaise(cfg.v) THEN cfg
                 ELSE Index(cfg, IndexOf(cfg.v.items[1], cfg.w.st),
                            SliceObj(cfg.v.items[2], cfg.v.items[3], cfg.v.items[4]))
         IN IF Len(inputs) < 5 THEN NoInput(w)
            ELSE Resolved(ParseInputs(SubSeq(inputs, 2, 5), w, d + 1))

select_python(node, w, d) ==
    IF node.cls # "NodeGroup" THEN NoKeyNode(w)
    ELSE LET inputs == node.key_node.inputs
         IN IF Len(inputs) < 3 THEN NoInput(w)
            ELSE R(w, Module("SelectModule",
                             [dim |-> DeepCopy(toIValue(inputs[2]), w.st),
                              index |-> DeepCopy(toIValue(inputs[3]), w.st)]))

size_python(node, w, d) ==
    IF node.cls # "NodeGroup" THEN NoKeyNode(w)
    ELSE LET inputs == node.key_node.inputs
         IN IF Len(inputs) < 2 THEN NoInput(w)
            ELSE R(w, Module("SizeMoudle", [sizedim |-> toIValue(inputs[2])]))

\* view_python and reshape_python keep the list translate_list built;
\* permute_python and expand_python keep a deep copy of it.
view_python(node, w, d) ==
    IF node.cls # "NodeGroup" THEN NoKeyNode(w)
    ELSE LET inputs == node.key_node.inputs
             Made(shape) ==
                 IF IsRaise(shape.v) THEN shape
                 ELSE R(Log(shape.w, "INFO", "View Module output size", ""),
                        Module("ViewModule", [shape |-> shape.v]))
         IN IF Len(inputs) < 2 THEN NoInput(w)
            ELSE Made(translate_list(inputs[2], TRUE, w))

reshape_python(node, w, d) ==
    IF node.cls # "NodeGroup" THEN NoKeyNode(w)
    ELSE LET inputs == node.key_node.inputs
             Made(shape) ==
                 IF IsRaise(shape.v) THEN shape
                 ELSE R(Log(shape.w, "INFO", "Reshape Module output size", ""),
                        Module("ReshapeModule", [shape |-> shape.v]))
         IN IF Len(inputs) < 2 THEN NoInput(w)
            ELSE Made(translate_list(inputs[2], TRUE, w))

permute_python(node, w, d) ==
    IF node.cls # "NodeGroup" THEN NoKeyNode(w)
    ELSE LET inputs == node.key_node.inputs
             Made(dim_list) ==
                 IF IsRaise(dim_list.v) THEN dim_list
                 ELSE R(dim_list.w,
                        Module("PermuteModule", [dimlist |-> DeepCopy(dim_list.v, dim_list.w.st)]))
         IN IF Len(inputs) < 2 THEN NoInput(w)
            ELSE Made(translate_list(inputs[2], TRUE, w))

expand_python(node, w, d) ==
    IF node.cls # "NodeGroup" THEN NoKeyNode(w)
    ELSE LET inputs == node.key_node.inputs
             Made(new_size) ==
                 IF IsRaise(new_size.v) THEN new_size
                 ELSE R(new_size.w,
                        Module("ExpandModule", [new_size |-> DeepCopy(new_size.v, new_size.w.st)]))
         IN IF Len(inputs) < 2 THEN NoInput(w)
            ELSE Made(translate_list(inputs[2], TRUE, w))

\* ------------------------------------------------------ constant payloads
\* Text is a sequence of characters.
Digits == <<"0", "1", "2", "3", "4", "5", "6", "7", "8", "9">>
RECURSIVE StrNat(_)
StrNat(n) == IF n < 10 THEN <<Digits[n + 1]>> ELSE StrNat(n \div 10) \o <<Digits[(n % 10) + 1]>>
StrInt(n) == IF n < 0 THEN <<"-">> \o StrNat(0 - n) ELSE StrNat(n)
Zeros(n) == [j \in 1..n |-> "0"]
Quote == "\""

\* The device types torch.device knows, as text.
DeviceTypes == {"cpu", "cuda"}
TypeText(type) ==
    CASE type = "cpu" -> <<"c", "p", "u">>
      [] type = "cuda" -> <<"c", "u", "d", "a">>

\* str(device): "cuda:0", or "cpu" for a device without index.
StrDevice(dev) ==
    IF dev.index < 0 THEN TypeText(dev.type)
    ELSE TypeText(dev.type) \o <<":">> \o StrNat(dev.index)

\* How the graph printer writes a double: an integral value below 1e10 as
\* the integer followed by a point, anything else with 17 significant digits
\* in the %g style (trailing zeros and a trailing point dropped, exponent
\* form when x < -4 or x >= 17).
StrFloat(f) ==
    LET sign == IF f.neg THEN <<"-">> ELSE <<>>
        n == Len(f.ds)
        absx == IF f.x < 0 THEN 0 - f.x ELSE f.x
        exponent == <<"e", IF f.x < 0 THEN "-" ELSE "+">>
                    \o (IF absx < 10 THEN <<"0">> ELSE <<>>) \o StrNat(absx)
    IN IF f.ds = <<"inf">> THEN sign \o <<"i", "n", "f">>
       ELSE IF n = 0 THEN sign \o <<"0", ".">>
       ELSE IF n <= f.x + 1 /\ f.x < 10
       THEN sign \o f.ds \o Zeros(f.x + 1 - n) \o <<".">>
       ELSE IF f.x < -4 \/ f.x >= 17
       THEN sign \o <<f.ds[1]>>
            \o (IF n > 1 THEN <<".">> \o SubSeq(f.ds, 2, n) ELSE <<>>) \o exponent
       ELSE IF f.x < 0
       THEN sign \o <<"0", ".">> \o Zeros(absx - 1) \o f.ds
       ELSE IF n <= f.x + 1
       THEN sign \o f.ds \o Zeros(f.x + 1 - n)
       ELSE sign \o SubSeq(f.ds, 1, f.x + 1) \o <<".">> \o SubSeq(f.ds, f.x + 2, n)

\* The text the graph printer shows for a constant's value.
StrValue(v) ==
    CASE v.t = "int" -> StrInt(v.v)
      [] v.t = "bool" -> IF v.v THEN <<"1">> ELSE <<"0">>
      [] v.t = "float" -> StrFloat(v)
      [] v.t = "device" -> <<Quote>> \o StrDevice(v) \o <<Quote>>
      [] v.t = "str" -> <<Quote>> \o v.s \o <<Quote>>
      [] v.t = "tensor" ->
           IF Prod(v.shape) = 1
           THEN <<"{">> \o StrInt(Item(v).v) \o <<"}">>
           ELSE <<"<", "T", "e", "n", "s", "o", "r", ">">>

\* str(node) of a torch._C.Node shows a constant's payload as [value=...]:
\* the payloads re.findall gives (none for a constant without value).
ValuePayloads(node) ==
    LET v == toIValue(node.out)
    IN IF v.t = "None" THEN <<>> ELSE <<StrValue(v)>>

\* int(text) for a sequence of characters.
RECURSIVE NatOf(_)
NatOf(cs) ==
    IF Len(cs) = 1 THEN (CHOOSE k \in 1..10 : Digits[k] = cs[1]) - 1
    ELSE NatOf(SubSeq(cs, 1, Len(cs) - 1)) * 10 + NatOf(<<cs[Len(cs)]>>)

IsDigits(cs) == cs # <<>> /\ \A j \in DOMAIN cs : \E k \in 1..10 : Digits[k] = cs[j]
int(cs) ==
    IF cs # <<>> /\ cs[1] \in {"-", "+"} /\ IsDigits(Tail(cs))
    THEN PyInt(IF cs[1] = "-" THEN 0 - NatOf(Tail(cs)) ELSE NatOf(Tail(cs)))
    ELSE IF IsDigits(cs) THEN PyInt(NatOf(cs))
    ELSE Raise("ValueError", "invalid literal for int()")

\* The first position of a character in a text, 0 when it is not there.
Find(cs, ch) ==
    IF \E j \in DOMAIN cs : cs[j] = ch
    THEN CHOOSE j \in DOMAIN cs : cs[j] = ch /\ \A h \in 1..(j - 1) : cs[h] # ch
    ELSE 0

\* float(text): [sign] digits [. digits] [e [sign] digits], one of the two
\* digit groups may be empty; or [sign] inf.
float(cs) ==
    LET signed == cs # <<>> /\ cs[1] \in {"-", "+"}
        neg == signed /\ cs[1] = "-"
        body == IF signed THEN Tail(cs) ELSE cs
        epos == Find(body, "e")
        mant == IF epos = 0 THEN body ELSE SubSeq(body, 1, epos - 1)
        expo == IF epos = 0 THEN PyInt(0) ELSE int(SubSeq(body, epos + 1, Len(body)))
        dpos == Find(mant, ".")
        ip == IF dpos = 0 THEN mant ELSE SubSeq(mant, 1, dpos - 1)
        fp == IF dpos = 0 THEN <<>> ELSE SubSeq(mant, dpos + 1, Len(mant))
        all == ip \o fp
        nz == {j \in DOMAIN all : all[j] # "0"}
        first == CHOOSE j \in nz : \A h \in nz : j <= h
        last == CHOOSE j \in nz : \A h \in nz : h <= j
    IN IF body = <<"i", "n", "f">> THEN PyInf(neg)
       ELSE IF ~IsDigits(all) \/ IsRaise(expo)
       THEN Raise("ValueError", "could not convert string to float")
       ELSE IF nz = {} THEN PyFloat(neg, <<>>, 0)
       ELSE PyFloat(neg, SubSeq(all, first, last), Len(ip) - first + expo.v)

\* torch.device(text): a device type, or a device type, a colon and an index.
torch_device(cs) ==
    LET colon == Find(cs, ":")
        type == IF colon = 0 THEN cs ELSE SubSeq(cs, 1, colon - 1)
        index == IF colon = 0 THEN PyInt(-1) ELSE int(SubSeq(cs, colon + 1, Len(cs)))
    IN IF (\E ty \in DeviceTypes : TypeText(ty) = type) /\ ~IsRaise(index)
          /\ (colon = 0 \/ index.v >= 0)
       THEN Device(CHOOSE ty \in DeviceTypes : TypeText(ty) = type, index.v)
       ELSE Raise("RuntimeError", "Expected one of cpu, cuda, ... device type at start of device string")

\* constant_python(node, speedup), for a torch._C.Node.
constant_python(node, w, d) ==
    IF node.cls # "Node" THEN R(w, Raise("AttributeError", "kind"))
    ELSE IF node.kind # "prim::Constant" THEN R(w, Raise("AssertionError", node.kind))
    ELSE LET key_words == ValuePayloads(node)
             ConstantModule(constant) ==
                 IF IsRaise(constant) THEN R(w, constant)
                 ELSE R(w, Module("ConstantModule", [constant |-> constant]))
             Parse(value) ==
                 IF value # <<>> /\ value[1] = Quote
                 THEN torch_device(SubSeq(value, 2, Len(value) - 1))
                 ELSE IF value # <<>> /\ value[1] = "{" THEN PySet(<<>>)
                 ELSE IF Find(value, ".") # 0 THEN float(value)
                 ELSE int(value)
         IN IF Len(key_words) = 0 THEN ConstantModule(None)
            ELSE ConstantModule(Parse(key_words[1]))

\* jitid_2_dtype[key]: a float key finds the integer it equals, a list is
\* not hashable, any other key that is not a code of the table is missing
\* (the KeyError is recorded with the type of the key).
GetDtype(key) ==
    CASE key.t = "int" /\ key.v \in DOMAIN jitid_2_dtype -> jitid_2_dtype[key.v]
      [] key.t = "float" /\ (\E n \in DOMAIN jitid_2_dtype : key = PyFloat(FALSE, StrNat(n), 0)) ->
           jitid_2_dtype[CHOOSE n \in DOMAIN jitid_2_dtype : key = PyFloat(FALSE, StrNat(n), 0)]
      [] key.t = "list" -> Raise("TypeError", "unhashable type")
      [] OTHER -> Raise("KeyError", key.t)

\* to_python(node, speedup): the device is the one of the stored first input
\* unless an input after the first resolves to a device (the last such wins);
\* the dtype code is read from the second input.
to_python(node, w, d) ==
    IF node.cls # "NodeGroup" THEN NoKeyNode(w)
    ELSE LET inputs == node.key_node.inputs
             ToModule(device, dtype) ==
                 IF IsRaise(dtype.v) THEN dtype
                 ELSE IF IsRaise(GetDtype(dtype.v)) THEN R(dtype.w, GetDtype(dtype.v))
                 ELSE R(dtype.w, Module("ToModule", [device |-> device,
                                                     dtype |-> GetDtype(dtype.v)]))
             Explicit(device, vals) ==
                 LET devs == {j \in DOMAIN vals : vals[j].t = "device"}
                 IN IF devs = {} THEN device
                    ELSE vals[CHOOSE j \in devs : \A h \in devs : h <= j]
             Resolve(device, vals) ==
                 IF IsRaise(vals.v) THEN vals
                 ELSE IF Len(inputs) < 2 THEN NoInput(vals.w)
                 ELSE ToModule(Explicit(device, vals.v.items),
                               parse_constant(inputs[2], vals.w, d + 1))
         IN IF Len(inputs) = 0 THEN NoInput(w)
            ELSE IF inputs[1] \notin DOMAIN w.st THEN R(w, Raise("KeyError", inputs[1]))
            ELSE Resolve(w.st[inputs[1]].device, ParseInputs(Tail(inputs), w, d + 1))

\* trans_from_jit_to_python[kind](node, speedup): the rule named r.
Rule(r, node, w, d) ==
    LET w1 == Ev(w, [e |-> "rule", a |-> r, d |-> d])
    IN CASE r \in DOMAIN SimpleRules -> R(w1, SimpleRules[r])
         [] r = "add_python" -> add_python(node, w1, d)
         [] r = "sub_python" -> sub_python(node, w1, d)
         [] r = "mul_python" -> mul_python(node, w1, d)
         [] r = "div_python" -> div_python(node, w1, d)
         [] r = "floor_div_python" -> floor_div_python(node, w1, d)
         [] r = "rsub_python" -> rsub_python(node, w1, d)
         [] r = "slice_python" -> slice_python(node, w1, d)
         [] r = "select_python" -> select_python(node, w1, d)
         [] r = "size_python" -> size_python(node, w1, d)
         [] r = "view_python" -> view_python(node, w1, d)
         [] r = "reshape_python" -> reshape_python(node, w1, d)
         [] r = "permute_python" -> permute_python(node, w1, d)
         [] r = "expand_python" -> expand_python(node, w1, d)
         [] r = "constant_python" -> constant_python(node, w1, d)
         [] r = "to_python" -> to_python(node, w1, d)

\* Variant of jit_to_python_function: the registry is indexed without the
\* membership test.
jit_to_python_function_unchecked(node, w) ==
    LET w1 == Log(w, "DEBUG", "Translate C function into its python version", node.op_type)
    IN IF node.op_type \notin DOMAIN trans_from_jit_to_python
       THEN R(w1, Raise("KeyError", node.op_type))
       ELSE Rule(trans_from_jit_to_python[node.op_type], node, w1, 0)

\* jit_to_python_function(node, speedup).
jit_to_python_function(node, w) ==
    LET w1 == Log(w, "DEBUG", "Translate C function into its python version", node.op_type)
    IN IF node.op_type \notin DOMAIN trans_from_jit_to_python
       THEN R(Log(w1, "ERROR", "is not Supported!", node.op_type), None)
       ELSE Rule(trans_from_jit_to_python[node.op_type], node, w1, 0)

\* ------------------------------------------------------- the inference loop
\* The caller of the module: it owns speedup.internal_result, stores the
\* results of the nodes it has run, overwrites stored tensors in place when
\* it randomizes its probe inputs, translates nodes and applies what it got.

\* The names the loop may have a result for, and the tensors it may hold.
StoreNames == {"x", "sz", "i", "c"}
TensorsFor(name) ==
    CASE name = "x" -> {Vec(<<-1, k>>) : k \in 0..MaxVal}
      [] name \in {"sz", "i"} -> {Vec(<<2>>)}
      [] name = "c" -> {Scalar(1)}

\* The literals of the graph: c is the one the model lets change.
Literals(c) ==
    [n \in Names |->
       CASE n = "c" -> PyInt(c)
         [] n = "d0" -> PyInt(0)
         [] n = "d1" -> PyInt(1)
         [] n = "sd" -> PyInt(0)
         [] n = "ss" -> PyInt(0)
         [] n = "se" -> PyInt(1)
         [] n = "sk" -> PyInt(1)
         [] n = "wt" -> Vec(<<1, 2>>)
         [] OTHER -> None]

\* The node groups the loop translates.
Group(kind, inputs) == NodeGroup(kind, Node(kind, inputs, "o"))
BinaryKinds == {"aten::add", "aten::sub", "aten::mul", "aten::div", "aten::floor_divide"}
OperandPairs == {<<"x", "c">>, <<"c", "x">>, <<"x", "sz">>, <<"x", "i">>, <<"x", "u">>,
                 <<"x", "none">>}

UnaryKinds == {"aten::relu", "aten::relu_", "aten::tanh", "aten::tanh_", "aten::sigmoid",
               "aten::sigmoid_", "prim::TupleUnpack", "prim::ListUnpack",
               "prim::NumToTensor", "aten::Int", "custom::unknown_op"}

ShapeKinds == {"aten::view", "aten::reshape", "aten::permute", "aten::expand"}
Groups ==
    {Group(k, p) : k \in BinaryKinds, p \in OperandPairs}
    \cup {Group(k, <<"x">>) : k \in UnaryKinds}
    \cup {Group(k, <<"x", "shp">>) : k \in ShapeKinds}
    \cup {Group("aten::rsub", <<"x", "sz", "c">>), Group("aten::rsub", <<"x", "c", "d1">>),
          Group("aten::select", <<"x", "d0", "d1">>),
          Group("aten::slice", <<"x", "sd", "ss", "se", "sk">>),
          Group("aten::slice", <<"wt", "sd", "ss", "sz", "sk">>)}

Idle == [op |-> "idle"]
NoPrev == [t |-> "noprev"]
Returned(op, arg, r, pre, prev) ==
    [op |-> op, arg |-> arg, res |-> r.v, log |-> r.w.log, tr |-> r.w.tr,
     pre |-> pre, prev |-> prev]

Init ==
    /\ internal_result = <<>>
    /\ \E c \in 0..MaxLit : lit = Literals(c)
    /\ ret = Idle
    /\ applied = Idle

\* The loop stores the result of a node it has run.
StoreResult(name, tensor) ==
    /\ name \notin DOMAIN internal_result
    /\ internal_result' = [n \in DOMAIN internal_result \cup {name} |->
                             IF n = name THEN tensor ELSE internal_result[n]]
    /\ ret' = Idle
    /\ applied' = Idle
    /\ UNCHANGED lit

\* The loop overwrites a stored tensor in place (randomized probing).
Randomize(name, tensor) ==
    /\ name \in DOMAIN internal_result
    /\ tensor # internal_result[name]
    /\ internal_result' = [internal_result EXCEPT ![name] = tensor]
    /\ ret' = Idle
    /\ applied' = Idle
    /\ UNCHANGED lit

\* The graph's literal c is given another value.
SetLiteral(c) ==
    /\ lit["c"] # PyInt(c)
    /\ lit' = [lit EXCEPT !["c"] = PyInt(c)]
    /\ ret' = Idle
    /\ applied' = Idle
    /\ UNCHANGED internal_result

\* parse_constant(value, speedup); prev is what the call before it returned
\* when that was parse_constant of the same value in the same store.
CallParseConstant(value) ==
    LET Result(r, prev) ==
            /\ ret' = Returned("parse_constant", [value |-> value], r, internal_result, prev)
            /\ internal_result' = r.w.st
    IN /\ Result(parse_constant(value, World(internal_result, <<>>, <<>>), 0),
                 IF ret.op = "parse_constant" /\ ret.arg.value = value
                 THEN ret.res ELSE NoPrev)
       /\ applied' = Idle
       /\ UNCHANGED lit

\* translate_list(value, speedup), or translate_list(value) without speedup.
CallTranslateList(value, speedup) ==
    LET Result(r) ==
            /\ ret' = Returned("translate_list", [value |-> value, speedup |-> speedup], r,
                               internal_result, NoPrev)
            /\ internal_result' = r.w.st
    IN /\ Result(translate_list(value, speedup, World(internal_result, <<>>, <<>>)))
       /\ applied' = Idle
       /\ UNCHANGED lit

\* jit_to_python_function(node, speedup).
CallJit(node) ==
    LET Result(r) ==
            /\ ret' = Returned("jit_to_python_function", node, r, internal_result, NoPrev)
            /\ internal_result' = r.w.st
    IN /\ Result(jit_to_python_function(node, World(internal_result, <<>>, <<>>)))
       /\ applied' = Idle
       /\ UNCHANGED lit

\* The callables whose application the model computes.
Applicable ==
    TorchBinary \cup {"torch.relu", "torch.relu_", "torch.sigmoid", "Identity", "ToIntModule",
                      "SliceMoudle", "constant_slice", "ViewModule", "ReshapeModule",
                      "PermuteModule", "ExpandModule", "SelectModule", "ToModule"}

\* The loop applies the callable it was given to stored tensors.
Apply(names) ==
    LET Result(r) ==
            /\ applied' = [op |-> "apply", args |-> names, res |-> Deref(r.v, r.w.st),
                           pre |-> internal_result]
            /\ internal_result' = r.w.st
    IN /\ ret.op = "jit_to_python_function"
       /\ ret.res.t = "callable"
       /\ ret.res.f \in Applicable
       /\ applied = Idle
       /\ \A j \in DOMAIN names : names[j] \in DOMAIN internal_result
       /\ Result(Call(ret.res, [j \in DOMAIN names |-> Ref(names[j])],
                      World(internal_result, <<>>, <<>>)))
       /\ UNCHANGED <<lit, ret>>

Next ==
    \/ \E name \in StoreNames : \E tensor \in TensorsFor(name) : StoreResult(name, tensor)
    \/ \E name \in StoreNames : \E tensor \in TensorsFor(name) : Randomize(name, tensor)
    \/ \E c \in 0..MaxLit : SetLiteral(c)
    \/ \E value \in Names : CallParseConstant(value)
    \/ \E value \in {"shp", "shx", "x"} : \E speedup \in BOOLEAN : CallTranslateList(value, speedup)
    \/ \E node \in Groups : CallJit(node)
    \/ \E names \in {<<"x">>, <<"x", "sz">>, <<"sz", "x">>} : Apply(names)

Spec == Init /\ [][Next]_vars

\* --------------------------------------------- probing after a translation
\* The loop keeps the callable a shape-changing node was translated to while
\* it goes on probing: it overwrites stored tensors in place, the graph's
\* literal is changed, and the kept callable is applied.
CopyNames == {"x", "sz", "i"}
CopyTensors(name) ==
    CASE name = "x" -> {Vec(<<-1, k>>) : k \in 0..MaxVal}
      [] name = "sz" -> {Vec(<<1>>), Vec(<<2>>)}
      [] name = "i" -> {Vec(<<2>>)}

CopyGroups ==
    {Group(k, <<"x", "shp">>) : k \in ShapeKinds}
    \cup {Group("aten::select", <<"x", "d0", "d1">>),
          Group("aten::slice", <<"x", "sd", "ss", "sz", "sk">>),
          Group("aten::slice", <<"wt", "sd", "ss", "sz", "sk">>)}

CopyStore(name, tensor) ==
    /\ ret = Idle
    /\ StoreResult(name, tensor)

CopyTranslate(node) ==
    /\ ret = Idle
    /\ "x" \in DOMAIN internal_result
    /\ CallJit(node)

\* In-place overwrite of a stored tensor; the callable is kept.
CopyRandomize(name, tensor) ==
    /\ ret # Idle
    /\ name \in DOMAIN internal_result
    /\ tensor # internal_result[name]
    /\ internal_result' = [internal_result EXCEPT ![name] = tensor]
    /\ applied' = Idle
    /\ UNCHANGED <<lit, ret>>

\* The graph-owned literal c (an element of the list shp) is changed; the
\* callable is kept.
CopyMutateList(c) ==
    /\ ret # Idle
    /\ lit["c"] # PyInt(c)
    /\ lit' = [lit EXCEPT !["c"] = PyInt(c)]
    /\ applied' = Idle
    /\ UNCHANGED <<internal_result, ret>>

NextCopy ==
    \/ \E name \in CopyNames : \E tensor \in CopyTensors(name) : CopyStore(name, tensor)
    \/ \E node \in CopyGroups : CopyTranslate(node)
    \/ \E name \in CopyNames : \E tensor \in CopyTensors(name) : CopyRandomize(name, tensor)
    \/ \E c \in 0..MaxLit : CopyMutateList(c)
    \/ Apply(<<"x">>)

SpecCopy == Init /\ [][NextCopy]_vars

\* ------------------------------------------------------- slicing a tensor
\* A graph whose aten::slice node has the literals dim, start, end, step;
\* the loop stores the 3-D operand x (and sz, a value an earlier node passed
\* on), translates the node and applies the callable, with or without the
\* extra runtime argument.
SliceShapes == {<<2, MaxDim, 2>>, <<MaxDim, 2, 2>>}
SliceDims == 0..2
SliceStarts == -1..1
SliceEnds == -1..(MaxDim + 1)
SliceSteps == 1..2
SliceNode == Group("aten::slice", <<"x", "sd", "ss", "se", "sk">>)
SliceLiterals(dim, start, end, step) ==
    [n \in Names |->
       CASE n = "sd" -> PyInt(dim)
         [] n = "ss" -> PyInt(start)
         [] n = "se" -> PyInt(end)
         [] n = "sk" -> PyInt(step)
         [] OTHER -> Literals(0)[n]]

InitSlice ==
    /\ internal_result = <<>>
    /\ \E dim \in SliceDims : \E start \in SliceStarts : \E end \in SliceEnds :
         \E step \in SliceSteps : lit = SliceLiterals(dim, start, end, step)
    /\ ret = Idle
    /\ applied = Idle

\* The loop stores the operand, its elements numbered in row-major order.
SliceStore(shape) ==
    /\ internal_result = <<>>
    /\ internal_result' = [n \in {"x", "sz"} |->
                             IF n = "x" THEN Tensor(shape, [ix \in Idx(shape) |-> Lin(ix, shape)])
                             ELSE Vec(<<2>>)]
    /\ UNCHANGED <<lit, ret, applied>>

SliceTranslate ==
    /\ "x" \in DOMAIN internal_result
    /\ ret = Idle
    /\ CallJit(SliceNode)

NextSlice ==
    \/ \E shape \in SliceShapes : SliceStore(shape)
    \/ SliceTranslate
    \/ \E names \in {<<"x">>, <<"x", "sz">>} : Apply(names)

SpecSlice == InitSlice /\ [][NextSlice]_vars

\* ------------------------------------------- materializing graph constants
\* The loop hands a prim::Constant node itself (not a NodeGroup) to the rule
\* registered for its kind and calls what it gets without arguments.  The
\* constant k of the graph carries one of these values.
MaxConst == 12
ConstFloats ==
    { PyFloat(FALSE, <<>>, 0), PyFloat(FALSE, <<"1">>, 0), PyFloat(TRUE, <<"2">>, 0),
      PyFloat(FALSE, <<"5">>, -1), PyFloat(FALSE, <<"1">>, -3),
      PyFloat(FALSE, <<"1", "2">>, 1), PyFloat(FALSE, <<"1", "2", "5">>, 1),
      PyFloat(FALSE, <<"1">> \o Zeros(15) \o <<"1">>, -5),
      PyFloat(FALSE, <<"1">>, 20), PyFloat(TRUE, <<"1">>, 20),
      PyFloat(FALSE, <<"1", "5">>, 20),
      PyInf(FALSE), PyInf(TRUE) }
ConstDevices == {Device("cpu", -1), Device("cuda", -1), Device("cuda", 0), Device("cuda", 1)}
ConstPayloads ==
    {None} \cup {PyInt(n) : n \in (0 - MaxConst)..MaxConst} \cup ConstFloats \cup ConstDevices
    \cup {PyStr(<<"f", "l", "o", "o", "r">>), Vec(<<1, 2>>), Scalar(2)}

InitConst ==
    /\ internal_result = <<>>
    /\ \E v \in ConstPayloads : lit = [Literals(0) EXCEPT !["k"] = v]
    /\ ret = Idle
    /\ applied = Idle

\* trans_from_jit_to_python[node.kind()](node, speedup) for the producer of
\* a value.
ConstTranslate(value) ==
    LET Result(r) ==
            /\ ret' = Returned("rule", [value |-> value], r, internal_result, NoPrev)
            /\ internal_result' = r.w.st
        Translate(node) ==
            Result(Rule(trans_from_jit_to_python[node.kind], node,
                        World(internal_result, <<>>, <<>>), 0))
    IN /\ ret = Idle
       /\ Translate(producer(value))
       /\ applied' = Idle
       /\ UNCHANGED lit

\* The loop calls the module it got, without arguments.
ConstApply ==
    LET Result(r) ==
            /\ applied' = [op |-> "apply", args |-> <<>>, res |-> Deref(r.v, r.w.st),
                           pre |-> internal_result]
            /\ internal_result' = r.w.st
    IN /\ ret.op = "rule"
       /\ ret.res.t = "callable"
       /\ applied = Idle
       /\ Result(Call(ret.res, <<>>, World(internal_result, <<>>, <<>>)))
       /\ UNCHANGED <<lit, ret>>

NextConst ==
    \/ ConstTranslate("k")
    \/ ConstApply

SpecConst == InitConst /\ [][NextConst]_vars


\* ---------------------------------------------------- device/type coercion
\* The loop translates aten::to nodes in the forms the tracer emits:
\* to(self, dtype, non_blocking, copy, memory_format),
\* to(self, device, dtype, non_blocking, copy, memory_format) and
\* to(self, dtype, layout, device, pin_memory, non_blocking, copy,
\* memory_format), and applies what it gets to the stored first input.
ToGroups ==
    {Group("aten::to", <<"x", "dt", "nb", "nb", "none">>),
     Group("aten::to", <<"x", "dev", "dt", "nb", "nb", "none">>),
     Group("aten::to", <<"x", "dt", "none", "dev", "none", "nb", "nb", "none">>)}
ToCodes == {PyInt(4), PyInt(5), PyInt(6), PyFloat(FALSE, <<"6">>, 0), None}
ToDevices == {Device("cpu", -1), Device("cuda", 0), Device("cuda", 1)}
ToTensors == {[Vec(<<-1, MaxVal>>) EXCEPT !.device = dev] : dev \in {Device("cpu", -1), Device("cuda", 0)}}

InitTo ==
    /\ internal_result = <<>>
    /\ \E dt \in ToCodes : \E dev \in ToDevices :
          lit = [Literals(0) EXCEPT !["dt"] = dt, !["dev"] = dev, !["nb"] = PyBool(FALSE)]
    /\ ret = Idle
    /\ applied = Idle

NextTo ==
    \/ \E tensor \in ToTensors : StoreResult("x", tensor)
    \/ \E node \in ToGroups : CallJit(node)
    \/ Apply(<<"x">>)

SpecTo == InitTo /\ [][NextTo]_vars


\* ------------------------------------------- parse_constant, call by call
\* The recursion of parse_constant as the interpreter runs it: a stack of
\* frames, one per active call.  A frame holds the value it resolves, its
\* depth, the position pos of the input the list comprehension of line 87
\* resolves next (0 until lines 79-82 have run) and the input values it has
\* so far.
Frame(value, d) == [value |-> value, d |-> d, pos |-> 0, vals |-> <<>>]

\* Line 78, on entry of a call.
Enter(w, value, d) ==
    Log(Ev(w, [e |-> "parse_constant", a |-> value, d |-> d]),
        "DEBUG", "Try to parse the constant value", value)

\* Variant of Resume: the comprehension does not move on to the next input.
Resume_same_input(frame, v) == [frame EXCEPT !.vals = Append(@, v)]

\* The caller's frame when a recursive call has returned v: the value is
\* collected and the comprehension moves on to the next input.
Resume(frame, v) == [frame EXCEPT !.vals = Append(@, v), !.pos = @ + 1]

\* The number of parse_constant calls made so far by the running resolution.
Calls(tr) == Cardinality({k \in DOMAIN tr : tr[k].e = "parse_constant"})

\* The loop stores a result while no resolution is running.
TermStore(name, tensor) ==
    /\ ret.op # "parsing"
    /\ StoreResult(name, tensor)

\* parse_constant(value, speedup) is called.
TermStart(value) ==
    LET Called(w) ==
            ret' = [op |-> "parsing", arg |-> [value |-> value], stack |-> <<Frame(value, 0)>>,
                    log |-> w.log, tr |-> w.tr, pre |-> internal_result]
    IN /\ ret.op # "parsing"
       /\ Called(Enter(World(internal_result, <<>>, <<>>), value, 0))
       /\ applied' = Idle
       /\ UNCHANGED <<internal_result, lit>>

\* The innermost call runs up to its next call, return or exception.
TermStep ==
    LET n == Len(ret.stack)
        top == ret.stack[n]
        w == World(internal_result, ret.log, ret.tr)
        done == [e |-> "return", a |-> top.value, d |-> top.d]
        Goes(stack, w2) ==
            /\ ret' = [ret EXCEPT !.stack = stack, !.log = w2.log, !.tr = w2.tr]
            /\ internal_result' = w2.st
        Finish(r) ==
            IF IsRaise(r.v) \/ n = 1
            THEN /\ ret' = Returned("parsed", ret.arg, r, ret.pre, NoPrev)
                 /\ internal_result' = r.w.st
            ELSE Goes(Append(SubSeq(ret.stack, 1, n - 2), Resume(ret.stack[n - 1], r.v)), r.w)
        Returns(r) == Finish(IF IsRaise(r.v) THEN r ELSE R(Ev(r.w, done), r.v))
        Invoke(func) ==
            IF IsRaise(func.v) THEN Finish(func)
            ELSE Returns(Call(func.v, top.vals,
                              Ev(func.w, [e |-> "call", a |-> top.value, d |-> top.d,
                                          f |-> func.v, args |-> top.vals])))
        Fold(op_node) ==
            IF op_node.kind \notin DOMAIN trans_from_jit_to_python
            THEN Finish(R(w, Raise("KeyError", op_node.kind)))
            ELSE Invoke(Rule(trans_from_jit_to_python[op_node.kind], op_node, w, top.d))
        Descend(op_node) ==
            IF top.pos <= Len(op_node.inputs)
            THEN /\ Calls(ret.tr) < MaxCalls
                 /\ Goes(Append(ret.stack, Frame(op_node.inputs[top.pos], top.d + 1)),
                         Enter(w, op_node.inputs[top.pos], top.d + 1))
            ELSE Fold(op_node)
    IN /\ ret.op = "parsing"
       /\ IF top.pos = 0
          THEN IF toIValue(top.value) # None THEN Returns(R(w, toIValue(top.value)))
               ELSE IF top.value \in DOMAIN internal_result THEN Returns(R(w, Ref(top.value)))
               ELSE Goes([ret.stack EXCEPT ![n].pos = 1], w)
          ELSE Descend(producer(top.value))
       /\ applied' = Idle
       /\ UNCHANGED lit

NextTerm ==
    \/ \E name \in StoreNames : \E tensor \in TensorsFor(name) : TermStore(name, tensor)
    \/ \E value \in Names : TermStart(value)
    \/ TermStep

\* The interpreter keeps running the call it is in.
SpecTerm == Init /\ [][NextTerm]_vars /\ WF_vars(TermStep)


\* =================================================================== claims
IsJit == ret.op = "jit_to_python_function"
IsParse == ret.op = "parse_constant"
IsList == ret.op = "translate_list"
Registered(kind) == kind \in DOMAIN trans_from_jit_to_python

\* The events of a trace that are of kind e at depth d, in order.
EventsOf(tr, e, d) == SelectSeq(tr, LAMBDA x : x.e = e /\ x.d = d)
\* The positions in a trace of the events of kind e at depth d.
PositionsOf(tr, e, d) == {k \in DOMAIN tr : tr[k].e = e /\ tr[k].d = d}

\* C1: jit_to_python_function on a node whose op_type is no key of the
\* registry returns None, emits exactly one diagnostic, which names that
\* op_type, raises nothing, invokes no translation rule (and no resolver
\* call), and leaves the store as it was.
C1_UnsupportedOpcode ==
    (IsJit /\ ~Registered(ret.arg.op_type)) =>
        /\ ret.res = None
        /\ Len(ret.log) = 1
        /\ ret.log[1].level = "ERROR"
        /\ ret.log[1].arg = ret.arg.op_type
        /\ ret.tr = <<>>
        /\ internal_result = ret.pre

C1_Witness ==
    /\ IsJit
    /\ ret.arg.op_type = "custom::unknown_op"
    /\ ret.res = None
    /\ "x" \in DOMAIN internal_result

\* C2: parse_constant resolves in a fixed priority order.  (a) A value that
\* carries a literal gives that literal, with no recursion and no rule, even
\* when its name is in the store.  (b) Otherwise a value whose name is in the
\* store gives the stored object.  (c) Otherwise the inputs of the producer
\* are resolved in input order (up to the first that raises), then the rule
\* registered for the producer's kind is invoked once, then the callable it
\* returned is called once on the resolved inputs, and its result returned.
C2_Top == <<[e |-> "parse_constant", a |-> ret.arg.value, d |-> 0],
            [e |-> "return", a |-> ret.arg.value, d |-> 0]>>

C2_Folded ==
    LET node == producer(ret.arg.value)
        kids == EventsOf(ret.tr, "parse_constant", 1)
        rules == PositionsOf(ret.tr, "rule", 0)
        calls == PositionsOf(ret.tr, "call", 0)
    IN /\ Len(kids) <= Len(node.inputs)
       /\ \A j \in DOMAIN kids : kids[j].a = node.inputs[j]
       /\ ~IsRaise(ret.res) =>
            /\ Len(kids) = Len(node.inputs)
            /\ Cardinality(rules) = 1
            /\ Cardinality(calls) = 1
            /\ \A r \in rules, c \in calls :
                 /\ ret.tr[r].a = trans_from_jit_to_python[node.kind]
                 /\ r < c
                 /\ \A k \in PositionsOf(ret.tr, "parse_constant", 1) : k < r
                 /\ ret.tr[c].f.t = "callable"
                 /\ Len(ret.tr[c].args) = Len(node.inputs)
                 /\ \A j \in DOMAIN node.inputs :
                      LET n == node.inputs[j]
                      IN /\ lit[n] # None => ret.tr[c].args[j] = lit[n]
                         /\ (lit[n] = None /\ n \in DOMAIN ret.pre) => ret.tr[c].args[j] = Ref(n)

\* What the folds of this graph must give, computed from the store alone.
C2_Expected ==
    LET xs == ret.pre["x"]
        relu == [ix \in DOMAIN xs.data |-> IF xs.data[ix] > 0 THEN xs.data[ix] ELSE 0]
    IN /\ (ret.arg.value = "r" /\ "x" \in DOMAIN ret.pre) =>
            ret.res = Ref("x") /\ internal_result["x"].data = relu
       /\ (ret.arg.value = "q" /\ "x" \in DOMAIN ret.pre) =>
            ret.res.t = "tensor" /\ ret.res.data = relu /\ ret.res.shape = xs.shape
       /\ (ret.arg.value = "nt" /\ "sz" \in DOMAIN ret.pre) => ret.res = Ref("sz")
       /\ (ret.arg.value = "i" /\ "sz" \in DOMAIN ret.pre) =>
            /\ ret.res.t = "tensor"
            /\ ret.res.data = ret.pre["sz"].data
            /\ ret.res.dtype = "int"
       /\ ret.arg.value = "none" => ret.res = None

C2_PriorityOrder ==
    IsParse =>
        IF lit[ret.arg.value] # None
        THEN ret.res = lit[ret.arg.value] /\ ret.tr = C2_Top
        ELSE IF ret.arg.value \in DOMAIN ret.pre
        THEN ret.res = Ref(ret.arg.value) /\ ret.tr = C2_Top
        ELSE C2_Folded /\ C2_Expected

\* The literal c is resolved while a tensor is stored under its name.
C2_Witness ==
    /\ IsParse
    /\ ret.arg.value = "c"
    /\ "c" \in DOMAIN ret.pre
    /\ ret.res = lit["c"]
    /\ ret.pre["c"] # lit["c"]

\* C3: the positions of a call's trace where parse_constant entered a value
\* that is no literal, is not in the store, and whose producer has no rule.
C3_Unfoldable ==
    {k \in DOMAIN ret.tr :
        /\ ret.tr[k].e = "parse_constant"
        /\ lit[ret.tr[k].a] = None
        /\ ret.tr[k].a \notin DOMAIN ret.pre
        /\ ~Registered(producer(ret.tr[k].a).kind)}

\* The inputs of the value entered at position k that were resolved.
C3_Resolved(k) ==
    {j \in DOMAIN ret.tr : j > k /\ ret.tr[j].e = "return" /\ ret.tr[j].d = ret.tr[k].d + 1}

\* C3 as stated: reaching such a value makes the call (parse_constant, or a
\* jit_to_python_function whose rule folds) fail with an error that names
\* the opcode of that value's producer.
C3_Original ==
    (IsParse \/ IsJit) =>
        \A k \in C3_Unfoldable : ret.res = Raise("KeyError", producer(ret.tr[k].a).kind)

\* C3 as amended: reaching such a value makes the call fail, never return a
\* default or None; the error is the KeyError naming that opcode when every
\* input of the producer resolved (the inputs are resolved before the
\* registry is asked, so the failure of an input is what propagates).
C3_UnresolvablePropagates ==
    (IsParse \/ IsJit) =>
        \A k \in C3_Unfoldable :
            /\ IsRaise(ret.res)
            /\ Cardinality(C3_Resolved(k)) = Len(producer(ret.tr[k].a).inputs) =>
                 ret.res = Raise("KeyError", producer(ret.tr[k].a).kind)

\* The fold of operand u inside mul_python fails out of jit_to_python_function.
C3_Witness ==
    /\ IsJit
    /\ ret.arg.op_type = "aten::mul"
    /\ ret.arg.key_node.inputs = <<"x", "u">>
    /\ "x" \in DOMAIN ret.pre
    /\ ret.res = Raise("KeyError", "custom::unknown_op")

\* C4 as stated: constant folding is idempotent and free of side effects:
\* a parse_constant or translate_list call leaves the store as it was, and a
\* second parse_constant of the same value returns what the first returned.
C4_Original ==
    (IsParse \/ IsList) =>
        /\ internal_result = ret.pre
        /\ ret.prev # NoPrev => ret.res = ret.prev

\* The operands of the node a jit_to_python_function call was given.
Operands == ret.arg.key_node.inputs
IsApplied == applied.op = "apply"
\* The values a callable has pre-bound, positionally or by keyword.
Bound(f) == {f.args[j] : j \in DOMAIN f.args} \cup {f.kw[k] : k \in DOMAIN f.kw}
TorchName(kind) ==
    CASE kind = "aten::add" -> "torch.add" [] kind = "aten::sub" -> "torch.sub"
      [] kind = "aten::mul" -> "torch.mul" [] kind = "aten::div" -> "torch.div"
      [] kind = "aten::floor_divide" -> "torch.floor_divide"

\* C6: add_python on (tensor in the store, literal c not in the store)
\* returns a callable of one argument with f(x) = x + c; on two operands in
\* the store it returns the unbound two-argument add.
C6_AddFold ==
    (IsJit /\ ret.arg.op_type = "aten::add" /\ Operands[1] \in DOMAIN ret.pre) =>
        /\ (Operands[2] \notin DOMAIN ret.pre /\ lit[Operands[2]] # None) =>
             /\ ret.res.t = "callable"
             /\ ret.res.f = "torch.add"
             /\ Bound(ret.res) = {lit[Operands[2]]}
             /\ (IsApplied /\ Len(applied.args) = 1) =>
                  LET x == applied.pre[applied.args[1]]
                  IN /\ applied.res.t = "tensor"
                     /\ applied.res.shape = x.shape
                     /\ \A ix \in DOMAIN x.data :
                          applied.res.data[ix] = x.data[ix] + lit[Operands[2]].v
        /\ Operands[2] \in DOMAIN ret.pre =>
             /\ ret.res = Callable("torch.add", <<>>, <<>>)
             /\ (IsApplied /\ applied.args = <<"x", "sz">>) =>
                  /\ applied.res.t = "tensor"
                  /\ \A ix \in DOMAIN applied.pre["x"].data :
                       applied.res.data[ix] =
                           applied.pre["x"].data[ix] + applied.pre["sz"].data[<<0>>]
             /\ (IsApplied /\ Len(applied.args) = 1) => IsRaise(applied.res)

\* f(x) = x + c was applied: [-1, k] + 1 starts with 0.
C6_Witness ==
    /\ IsJit
    /\ ret.arg.op_type = "aten::add"
    /\ Operands = <<"x", "c">>
    /\ "c" \notin DOMAIN ret.pre
    /\ lit["c"] = PyInt(1)
    /\ IsApplied
    /\ applied.args = <<"x">>
    /\ applied.res.t = "tensor"
    /\ applied.res.data[<<0>>] = 0

\* C7 as stated, for a node of the binary family that was translated without
\* an exception: with both operands in the store the unbound torch operation
\* comes back; an operand that is not in the store is folded by
\* parse_constant and is what the callable has pre-bound; at most one
\* operand is bound.
C7_Original ==
    (IsJit /\ ret.arg.op_type \in BinaryKinds /\ ~IsRaise(ret.res)) =>
        LET missing == {j \in 1..2 : Operands[j] \notin DOMAIN ret.pre}
        IN /\ missing = {} => ret.res = Callable(TorchName(ret.arg.op_type), <<>>, <<>>)
           /\ \A j \in missing :
                Cardinality(missing) = 1 =>
                    /\ \E k \in DOMAIN ret.tr :
                         ret.tr[k].e = "parse_constant" /\ ret.tr[k].a = Operands[j]
                    /\ lit[Operands[j]] # None =>
                         ret.res.t = "callable" /\ Bound(ret.res) = {lit[Operands[j]]}
           /\ ret.res.t = "callable" => Cardinality(Bound(ret.res)) <= 1

\* The single element of a stored one-element tensor, as a Python number.
C8_ItemOf(x) == PyInt(x.data[IF x.shape = <<>> THEN <<>> ELSE <<0>>])
C8_IsList == IsList /\ producer(ret.arg.value).kind = "prim::ListConstruct"
C8_Inputs == producer(ret.arg.value).inputs

\* C8 as stated: translate_list on a prim::ListConstruct of n inputs returns
\* n values in input order, element i being what the resolver gives for
\* input i: its literal, else the stored value, else the fold of its producer.
C8_Original ==
    C8_IsList =>
        /\ ret.res.t = "list"
        /\ Len(ret.res.items) = Len(C8_Inputs)
        /\ \A j \in DOMAIN C8_Inputs :
             ret.res.items[j] =
                 parse_constant(C8_Inputs[j], World(ret.pre, <<>>, <<>>), 0).v

\* C8 as amended: element i is the .item() of the stored tensor when a
\* speedup is given and input i's name is in the store (whether or not the
\* input is also a literal), and otherwise input i's literal, None when it
\* has none; nothing is folded; a stored tensor of more than one element
\* makes the call raise.
C8_TranslateList ==
    C8_IsList =>
        LET stored == {j \in DOMAIN C8_Inputs : ret.arg.speedup /\ C8_Inputs[j] \in DOMAIN ret.pre}
        IN /\ ret.tr = <<>>
           /\ internal_result = ret.pre
           /\ IF \E j \in stored : Cardinality(DOMAIN ret.pre[C8_Inputs[j]].data) # 1
              THEN IsRaise(ret.res) /\ ret.res.exc = "ValueError"
              ELSE /\ ret.res.t = "list"
                   /\ Len(ret.res.items) = Len(C8_Inputs)
                   /\ \A j \in DOMAIN C8_Inputs :
                        ret.res.items[j] = IF j \in stored
                                           THEN C8_ItemOf(ret.pre[C8_Inputs[j]])
                                           ELSE lit[C8_Inputs[j]]

\* shp = [d1, i, c] with i and c stored: the stored c wins over the literal
\* c, and the stored tensors come back as numbers.
C8_Witness ==
    /\ IsList
    /\ ret.arg = [value |-> "shp", speedup |-> TRUE]
    /\ {"i", "c"} \subseteq DOMAIN ret.pre
    /\ lit["c"] = PyInt(0)
    /\ ret.res = List(<<PyInt(1), PyInt(2), PyInt(1)>>)

\* What the tensor operation an opcode names gives on one tensor.
C9_Reference(kind, x) ==
    CASE kind \in {"aten::relu", "aten::relu_"} ->
           [x EXCEPT !.data = [ix \in DOMAIN x.data |-> IF x.data[ix] > 0 THEN x.data[ix] ELSE 0]]
      [] kind \in {"aten::tanh", "aten::tanh_"} ->
           [x EXCEPT !.sym = <<[f |-> "tanh"]>>, !.dtype = "float32"]
      [] kind \in {"aten::sigmoid", "aten::sigmoid_"} ->
           [x EXCEPT !.sym = <<[f |-> "sigmoid"]>>, !.dtype = "float32"]

C9_Elementwise == {"aten::relu", "aten::relu_", "aten::tanh", "aten::tanh_", "aten::sigmoid",
                   "aten::sigmoid_"}

\* C9 as stated: for a registered opcode and a node whose inputs are all in
\* the store, translation yields a callable without raising, and the callable
\* gives what the tensor operation the opcode names gives.
C9_Original ==
    (/\ IsJit
     /\ Registered(ret.arg.op_type)
     /\ \A j \in DOMAIN Operands : Operands[j] \in DOMAIN ret.pre) =>
        /\ ~IsRaise(ret.res)
        /\ ret.res.t = "callable"
        /\ (IsApplied /\ ret.arg.op_type \in C9_Elementwise /\ applied.args = <<"x">>) =>
             applied.res = C9_Reference(ret.arg.op_type, applied.pre["x"])

\* The configuration a stateful callable works with, read through a store.
C5_Config(f, st) == [k \in DOMAIN f.kw |-> DeepCopy(f.kw[k], st)]
C5_Modules == {"ViewModule", "ReshapeModule", "PermuteModule", "ExpandModule", "SelectModule",
               "SliceMoudle", "constant_slice"}

\* C5 as stated: once a shape-changing rule has returned a callable,
\* overwriting in place the value its shape / axis / index configuration was
\* resolved from does not change the configuration the callable uses: it is
\* the one resolved at translation time, and applying the callable gives
\* what it would have given then.
C5_Original ==
    (IsJit /\ ret.res.t = "callable" /\ ret.res.f \in C5_Modules) =>
        /\ C5_Config(ret.res, internal_result) = C5_Config(ret.res, ret.pre)
        /\ IsApplied =>
             applied.res = Deref(Call(ret.res, <<applied.pre["x"]>>,
                                      World(ret.pre, <<>>, <<>>)).v, ret.pre)

\* A slice bound as Python reads it on a dimension of extent n: a negative
\* bound counts from the end, and bounds are clamped to 0..n.
C10_Bound(v, n) == IF v < 0 THEN (IF v + n < 0 THEN 0 ELSE v + n) ELSE (IF v > n THEN n ELSE v)
C10_Dim == lit["sd"].v + 1
\* The positions of dimension d the slice selects: s, s+k, ... below e.
C10_Selected(n) ==
    {q \in 0..(n - 1) : /\ q >= C10_Bound(lit["ss"].v, n)
                        /\ q < C10_Bound(lit["se"].v, n)
                        /\ (q - C10_Bound(lit["ss"].v, n)) % lit["sk"].v = 0}

\* C10: slice_python with dim = d, start = s, end = e, step = k and the
\* operand in the store returns a callable whose index is exactly d full
\* slices followed by slice(s, e, k); applied to a tensor it leaves every
\* dimension other than d as it was and restricts dimension d to the
\* positions s, s+k, ... below e (s and e read as slice bounds), and extra
\* runtime arguments change nothing.
C10_Slice ==
    (IsJit /\ ret.arg = SliceNode /\ "x" \in DOMAIN ret.pre) =>
        /\ ret.res.t = "callable"
        /\ ret.res.f = "SliceMoudle"
        /\ ret.res.args = <<>>
        /\ ret.res.kw.sliceobj.t = "tuple"
        /\ Len(ret.res.kw.sliceobj.items) = lit["sd"].v + 1
        /\ \A j \in 1..lit["sd"].v :
             ret.res.kw.sliceobj.items[j] = SliceObj(None, None, None)
        /\ ret.res.kw.sliceobj.items[C10_Dim] = SliceObj(lit["ss"], lit["se"], lit["sk"])
        /\ IsApplied =>
             LET x == applied.pre["x"]
                 n == x.shape[C10_Dim]
                 first == C10_Bound(lit["ss"].v, n)
             IN /\ applied.res.t = "tensor"
                /\ Len(applied.res.shape) = Len(x.shape)
                /\ \A j \in DOMAIN x.shape :
                     applied.res.shape[j] = IF j = C10_Dim THEN Cardinality(C10_Selected(n))
                                            ELSE x.shape[j]
                /\ \A ix \in DOMAIN applied.res.data :
                     /\ first + lit["sk"].v * ix[C10_Dim] \in C10_Selected(n)
                     /\ applied.res.data[ix] =
                            x.data[[ix EXCEPT ![C10_Dim] = first + lit["sk"].v * ix[C10_Dim]]]

\* dim=1, start=0, end=2, step=1 on shape (2, MaxDim, 2) gives shape
\* (2, 2, 2), with an extra runtime argument passed.
C10_Witness ==
    /\ IsJit
    /\ ret.arg = SliceNode
    /\ lit["sd"] = PyInt(1) /\ lit["ss"] = PyInt(0) /\ lit["se"] = PyInt(2) /\ lit["sk"] = PyInt(1)
    /\ IsApplied
    /\ applied.args = <<"x", "sz">>
    /\ applied.pre["x"].shape = <<2, MaxDim, 2>>
    /\ applied.res.t = "tensor"
    /\ applied.res.shape = <<2, 2, 2>>

\* C11 (as stated): constant_python, for a prim::Constant node, returns a
\* zero-argument callable whose result is the node's payload as its typed
\* value: the integer for an integer payload, the float for every float
\* payload, the device for a quoted device tag, None when the node carries
\* no value; for any other payload (a tensor, a string that names no
\* device) the translation raises.
C11_Typed(v) == v.t \in {"None", "int", "float", "device"}
C11_Original ==
    ret.op = "rule" /\ ret.arg.value = "k" =>
        /\ C11_Typed(lit["k"]) => ret.res.t = "callable"
        /\ ~C11_Typed(lit["k"]) => IsRaise(ret.res)
        /\ applied # Idle => applied.res = lit["k"]

\* C12 (as stated): for an aten::to node whose first input is in the store
\* and whose dtype argument resolves to a code of jitid_2_dtype, to_python
\* returns a callable, with or without an explicit device argument, and the
\* callable converts its argument to device D and dtype T: D is the device
\* constant among the inputs after the first if there is one and the device
\* of the stored first input otherwise, T is jitid_2_dtype[code].
C12_IsTo == ret.op = "jit_to_python_function" /\ ret.arg.op_type = "aten::to"
C12_Inputs == ret.arg.key_node.inputs
C12_Explicit == \E j \in 2..Len(C12_Inputs) : C12_Inputs[j] = "dev"
C12_Device ==
    IF C12_Explicit THEN lit["dev"] ELSE ret.pre[C12_Inputs[1]].device
C12_Original ==
    C12_IsTo /\ C12_Inputs[1] \in DOMAIN ret.pre /\ lit["dt"] \in {PyInt(4), PyInt(6)} =>
        /\ ret.res.t = "callable"
        /\ applied # Idle =>
              /\ applied.res.device = C12_Device
              /\ applied.res.dtype = jitid_2_dtype[lit["dt"].v].name
              /\ applied.res.data = applied.pre["x"].data

\* C13 (as stated): for an aten::sub node with exactly one operand that is a
\* literal c not in the store (the other operand being in the store),
\* sub_python returns a callable that has the scalar c bound to that
\* operand's position, and the callable applied to the stored operand y
\* gives c - y when c is the first operand and y - c when c is the second.
C13_Folded == {j \in 1..2 : Operands[j] \notin DOMAIN ret.pre /\ lit[Operands[j]] # None}
C13_Original ==
    (/\ IsJit
     /\ ret.arg.op_type = "aten::sub"
     /\ Cardinality(C13_Folded) = 1
     /\ \E j \in 1..2 : Operands[j] \in DOMAIN ret.pre) =>
        LET j == CHOOSE i \in C13_Folded : TRUE
            c == lit[Operands[j]]
        IN /\ ret.res.t = "callable"
           /\ ret.res.f = "torch.sub"
           /\ Bound(ret.res) = {c}
           /\ j = 1 => ret.res.args = <<c>> \/ "input" \in DOMAIN ret.res.kw
           /\ j = 2 => "other" \in DOMAIN ret.res.kw
           /\ (IsApplied /\ Len(applied.args) = 1) =>
                LET y == applied.pre[applied.args[1]]
                IN /\ applied.res.t = "tensor"
                   /\ applied.res.shape = y.shape
                   /\ \A ix \in DOMAIN y.data :
                        applied.res.data[ix] = IF j = 1 THEN c.v - y.data[ix]
                                               ELSE y.data[ix] - c.v

\* The number of producer-chain paths that start at a value: the value
\* itself and, for each input of its producer, the paths that start there.
RECURSIVE C14_Paths(_)
RECURSIVE C14_PathsFrom(_, _)
C14_PathsFrom(inputs, j) ==
    IF j > Len(inputs) THEN 0 ELSE C14_Paths(inputs[j]) + C14_PathsFrom(inputs, j + 1)
C14_Paths(value) == 1 + C14_PathsFrom(producer(value).inputs, 1)

C14_Running == ret.op = "parsing"
C14_Finished == ret.op = "parsed"
\* What holds of a running or finished resolution: every active call but the
\* outermost is on the input its caller's comprehension is at, one level
\* deeper; the calls made do not exceed the paths from the resolved value;
\* a literal or stored value is resolved by the one call, without recursion.
C14_Bounded ==
    /\ C14_Running =>
         \A j \in 2..Len(ret.stack) :
             /\ ret.stack[j - 1].pos \in DOMAIN producer(ret.stack[j - 1].value).inputs
             /\ ret.stack[j].value =
                    producer(ret.stack[j - 1].value).inputs[ret.stack[j - 1].pos]
             /\ ret.stack[j].d = ret.stack[j - 1].d + 1
    /\ (C14_Running \/ C14_Finished) =>
         /\ Calls(ret.tr) <= C14_Paths(ret.arg.value)
         /\ (lit[ret.arg.value] # None \/ ret.arg.value \in DOMAIN ret.pre) =>
              /\ Calls(ret.tr) = 1
              /\ C14_Running => Len(ret.stack) = 1
              /\ C14_Finished => ~IsRaise(ret.res)

\* The recursive operator and the call-by-call run agree on the result, the
\* trace and the store.
C14_Agrees ==
    C14_Finished =>
        LET r == parse_constant(ret.arg.value, World(ret.pre, <<>>, <<>>), 0)
        IN r.v = ret.res /\ r.w.tr = ret.tr /\ r.w.log = ret.log /\ r.w.st = internal_result

\* C14: on the (finite, single-assignment, acyclic) graph, every
\* parse_constant call terminates, by returning a value or raising; each
\* recursive call is on an input of the current value's producer, the
\* number of calls is at most the number of producer-chain paths from the
\* value, and a literal or stored value causes no recursion.
C14_Terminates == [](C14_Bounded /\ C14_Agrees) /\ (C14_Running ~> C14_Finished)

\* A resolution that recursed through shared producers (dd = add(q, q), q =
\* relu(r), r = relu_(x)) has finished with as many calls as there are paths.
C14_Witness ==
    /\ C14_Finished
    /\ ret.arg.value = "dd"
    /\ Calls(ret.tr) = C14_Paths("dd")
    /\ Calls(ret.tr) > Cardinality({"dd", "q", "r", "x"})

====
